---- MODULE Spec2Model ----
(***************************************************************************)
(* Webhook dispatch pipeline of github_actions_on_gcp (pkg/webhook):       *)
(* Server.handleWebhook / Server.processRequest, the credential exchange   *)
(* (Server.generateJITConfig) and the Cloud Build submission.              *)
(*                                                                         *)
(* The handler modelled is the current revision of processRequest, the     *)
(* one with the nil-action check and the per-action logging.               *)
(*                                                                         *)
(* Conventions.                                                            *)
(*  - A Go pointer / optional JSON member is a sequence of length <= 1:    *)
(*    <<>> is nil, <<v>> is a pointer to v.                                *)
(*  - A Go string that reaches a response body is a Text: a sequence of    *)
(*    tokens, where each of the five characters html.EscapeString rewrites *)
(*    is a token of its own.  Str flattens a Text to a string.             *)
(*  - A handler goroutine that panics is recovered by net/http, which      *)
(*    drops the connection without writing a response: pc = "panicked".    *)
(*  - Every request carries Content-Type: application/json.                *)
(***************************************************************************)
EXTENDS Integers, Sequences, FiniteSets, TLC

\* The record fields of the model.  TLC keeps the fields of a record in the order
\* in which their names first occur in the module; every record below lists its
\* fields in this order.
FieldOrder ==
    [ Action |-> 1, Args |-> 2, Body |-> 3, BuildLocation |-> 4, Code |-> 5,
      Entrypoint |-> 6, Error |-> 7, GitHubAPIBaseURL |-> 8,
      GitHubAppID |-> 9, GitHubWebhookKeyMountPath |-> 10,
      GitHubWebhookKeyName |-> 11, GoType |-> 12, ID |-> 13, Id |-> 14,
      Installation |-> 15, KMSAppPrivateKeyID |-> 16, Labels |-> 17,
      Logging |-> 18, Login |-> 19, Message |-> 20, Name |-> 21, Org |-> 22,
      Parent |-> 23, Pool |-> 24, Port |-> 25, ProjectId |-> 26, Repo |-> 27,
      RunID |-> 28, RunnerGroupID |-> 29, RunnerImageName |-> 30,
      RunnerImageTag |-> 31, RunnerProjectID |-> 32,
      RunnerRespositoryID |-> 33, RunnerServiceAccount |-> 34,
      ServiceAccount |-> 35, StatusCode |-> 36, Step |-> 37,
      Substitutions |-> 38, WorkflowJob |-> 39, _ENCODED_JIT_CONFIG |-> 40,
      _IMAGE_NAME |-> 41, _IMAGE_TAG |-> 42, _REPOSITORY_ID |-> 43,
      args |-> 44, argv |-> 45, at |-> 46, body |-> 47, cbc |-> 48,
      cfg |-> 49, changed |-> 50, decodable |-> 51, delivery |-> 52,
      digestKey |-> 53, digestMsg |-> 54, entries |-> 55, environ |-> 56,
      err |-> 57, event |-> 58, eventType |-> 59, fields |-> 60,
      ghAPIBaseURL |-> 61, healthz |-> 62, hex |-> 63, installationID |-> 64,
      kind |-> 65, kmc |-> 66, level |-> 67, msg |-> 68, name |-> 69,
      ok |-> 70, org |-> 71, payload |-> 72, prefix |-> 73, repo |-> 74,
      req |-> 75, response |-> 76, runnerID |-> 77, runnerImageName |-> 78,
      runnerImageTag |-> 79, runnerLocation |-> 80, runnerProjectID |-> 81,
      runnerRepositoryID |-> 82, runnerServiceAccount |-> 83,
      runnerWorkerPoolID |-> 84, secret |-> 85, signature |-> 86,
      stage |-> 87, status |-> 88, svc |-> 89, verdict |-> 90, was |-> 91,
      webhookSecret |-> 92, wroteHeader |-> 93 ]

----------------------------------------------------------------------------
(* Bounds of the model *)

\* longest label list a workflow job carries
MaxLabels == 2
\* number of webhook deliveries a behaviour can contain
MaxDeliveries == 2

----------------------------------------------------------------------------
(* Optional values and texts *)

None == <<>>
Some(v) == <<v>>
IsNil(p) == p = <<>>
Deref(p) == p[1]

RECURSIVE Str(_)
\* the string a Text stands for
Str(t) == IF t = <<>> THEN "" ELSE Head(t) \o Str(Tail(t))

T(s) == <<s>>

\* html.EscapeString escapes exactly these five characters
EscapeToken(c) ==
    CASE c = "<"  -> "&lt;"
      [] c = ">"  -> "&gt;"
      [] c = "&"  -> "&amp;"
      [] c = "'"  -> "&#39;"
      [] c = "\"" -> "&#34;"
      [] OTHER    -> c

EscapeString(t) == [i \in 1..Len(t) |-> EscapeToken(t[i])]

SpecialChars == {"<", ">", "&", "'", "\""}

Digit(n) ==
    CASE n = 0 -> "0" [] n = 1 -> "1" [] n = 2 -> "2" [] n = 3 -> "3"
      [] n = 4 -> "4" [] n = 5 -> "5" [] n = 6 -> "6" [] n = 7 -> "7"
      [] n = 8 -> "8" [] n = 9 -> "9"

RECURSIVE FormatInt(_)
\* fmt.Sprintf("%d", n) for n >= 0
FormatInt(n) == IF n < 10 THEN Digit(n) ELSE FormatInt(n \div 10) \o Digit(n % 10)

RECURSIVE JoinTexts(_, _)
JoinTexts(ts, sep) ==
    IF ts = <<>> THEN <<>>
    ELSE IF Len(ts) = 1 THEN ts[1]
    ELSE ts[1] \o <<sep>> \o JoinTexts(Tail(ts), sep)

\* fmt.Sprintf("%s", labels) for a []string
SprintLabels(labels) == <<"[">> \o JoinTexts(labels, " ") \o <<"]">>

\* fmt.Sprintf("%q", s) for a string without characters that need a Go escape
SprintQuoted(s) == <<"\"", s, "\"">>

SeqContains(s, x) == \E i \in 1..Len(s) : s[i] = x

----------------------------------------------------------------------------
(* Program constants *)

defaultRunnerLabel == T("self-hosted")
runnerStartedMsg == T("runner started")

StatusOK == 200
StatusBadRequest == 400
StatusInternalServerError == 500

\* values the repository's tests use
serverGitHubWebhookSecret == "test-github-webhook-secret"
WrongSecret == "some-other-secret"
TestRunID == 456
TestJobID == 789
TesterJobID == 123456789
TesterRunID == 987654321
TesterInstallationID == 54321
TestInstallationID == 123
TestOrgLogin == "google"
TestRepoName == "webhook"
TestEncodedJitConfig == "Hello"

----------------------------------------------------------------------------
(* Webhook envelopes: what a client can send to POST /webhook *)

ActionNames == {"queued", "in_progress", "completed", "waiting"}

LabelNames == { T("self-hosted"), T("other-label"), T("pr-123-abc") }

RECURSIVE SeqsUpTo(_, _)
SeqsUpTo(S, n) ==
    IF n = 0 THEN { <<>> }
    ELSE LET shorter == SeqsUpTo(S, n - 1)
         IN  shorter \cup { Append(s, x) : s \in { t \in shorter : Len(t) = n - 1 }, x \in S }

LabelLists == SeqsUpTo(LabelNames, MaxLabels)

OptionOf(S) == { None } \cup { Some(v) : v \in S }

\* the workflow_job member of the payload (github.WorkflowJob)
WorkflowJobs ==
    [ ID : OptionOf({TestJobID, TesterJobID}),
      Labels : LabelLists,
      RunID : OptionOf({TestRunID}) ]

Installations == [ ID : OptionOf({TestInstallationID}) ]
Organizations == [ Login : OptionOf({TestOrgLogin}) ]
Repositories == [ Name : OptionOf({TestRepoName}) ]

\* a request body that is a JSON object: the members a WorkflowJobEvent reads
JSONPayloads ==
    [ Action : OptionOf(ActionNames),
      Installation : OptionOf(Installations),
      Org : OptionOf(Organizations),
      Repo : OptionOf(Repositories),
      WorkflowJob : OptionOf(WorkflowJobs),
      decodable : {TRUE} ]

\* a truncated body such as {"foo": "bar"
TruncatedPayload ==
    [ Action |-> None, Installation |-> None, Org |-> None, Repo |-> None,
      WorkflowJob |-> None, decodable |-> FALSE ]

Payloads == JSONPayloads \cup { TruncatedPayload }

\* HMAC-SHA256 as an ideal keyed hash: equal digests only for equal key and message
HmacSHA256(key, payload) == [ digestKey |-> key, digestMsg |-> payload ]

\* cmd/webhook-tester generateSignature: "sha256=" followed by the hex digest
generateSignature(payload, secret) ==
    [ hex |-> Some(HmacSHA256(secret, payload)), prefix |-> "sha256" ]

\* "sha256=invalid-signature": right prefix, not a hex digest
InvalidSignature == [ hex |-> None, prefix |-> "sha256" ]

\* the X-Hub-Signature-256 header a request can carry with a payload: none, the
\* payload signed with the server's secret, the payload signed with another
\* secret, another payload signed with the server's secret, and a non-hex value
SignatureHeaders(payload) ==
    { None,
      Some(generateSignature(payload, serverGitHubWebhookSecret)),
      Some(generateSignature(payload, WrongSecret)),
      Some(generateSignature(TruncatedPayload, serverGitHubWebhookSecret)),
      Some(InvalidSignature) }

\* X-Github-Event: the event this system acts on, another event go-github knows,
\* an event name it does not know
EventTypes == { "workflow_job", "push", "no_such_event" }

\* cmd/webhook-tester: the payload of its "valid payload" case
validPayload ==
    [ Action |-> Some("queued"),
      Installation |-> Some([ ID |-> Some(TesterInstallationID) ]),
      Org |-> Some([ Login |-> Some("test-org") ]),
      Repo |-> Some([ Name |-> Some("test-repo") ]),
      WorkflowJob |-> Some([ ID |-> Some(TesterJobID),
                             Labels |-> << T("self-hosted") >>,
                             RunID |-> Some(TesterRunID) ]),
      decodable |-> TRUE ]

\* cmd/webhook-tester: {"action": "completed"}, the payload of its "non-queued
\* event" case
nonQueuedPayload ==
    [ Action |-> Some("completed"), Installation |-> None, Org |-> None, Repo |-> None,
      WorkflowJob |-> None, decodable |-> TRUE ]

\* cmd/webhook-tester: the five requests it sends, in the order of its test cases
testCases ==
    { [ body |-> validPayload, eventType |-> "workflow_job",
        signature |-> Some(generateSignature(validPayload, serverGitHubWebhookSecret)) ],
      [ body |-> validPayload, eventType |-> "workflow_job",
        signature |-> Some(InvalidSignature) ],
      [ body |-> validPayload, eventType |-> "workflow_job", signature |-> None ],
      [ body |-> TruncatedPayload, eventType |-> "workflow_job",
        signature |-> Some(generateSignature(TruncatedPayload, serverGitHubWebhookSecret)) ],
      [ body |-> nonQueuedPayload, eventType |-> "workflow_job",
        signature |-> Some(generateSignature(nonQueuedPayload, serverGitHubWebhookSecret)) ] }

----------------------------------------------------------------------------
(* The server: configuration and clients fixed by NewServer *)

GoodBaseURL == "https://api.github.com"
\* url.Parse rejects a URL whose first path segment holds a colon
BadBaseURL == ":no-scheme"

\* a client handle of the Server: the client behind it is open until its Close
\* is called
Open == "open"
Closed == "closed"

Servers ==
    [ cbc : {Open},
      ghAPIBaseURL : {GoodBaseURL, BadBaseURL},
      kmc : {Open},
      runnerImageName : {"default-runner"},
      runnerImageTag : {"latest"},
      runnerLocation : {"us-west1"},
      runnerProjectID : {"p"},
      runnerRepositoryID : {"us-docker.pkg.dev/p/r"},
      runnerServiceAccount : {"runner@p.iam.gserviceaccount.com"},
      runnerWorkerPoolID : {"", "projects/p/locations/us-west1/workerPools/w"},
      webhookSecret : {serverGitHubWebhookSecret} ]

----------------------------------------------------------------------------
(* The configuration of the server command: Config, ToFlags and Validate *)

\* the environment variables a start-up can find set: the ones ToFlags binds
\* to a required field, and PROJECT_ID, which the command's test sets
EnvVars ==
    { "BUILD_LOCATION", "GITHUB_APP_ID", "WEBHOOK_KEY_MOUNT_PATH", "WEBHOOK_KEY_NAME",
      "KMS_APP_PRIVATE_KEY_ID", "RUNNER_PROJECT_ID", "RUNNER_REPOSITORY_ID",
      "RUNNER_SERVICE_ACCOUNT", "PROJECT_ID" }

Environments == SUBSET EnvVars

\* the argument lists of the command's test: none, and one stray argument
ArgLists == { <<>>, <<"foo">> }

\* a flag bound to an environment variable takes the variable's value when it
\* is set and its default otherwise
LookupEnv(environ, name, default) ==
    IF name \in environ THEN "value-of-" \o name ELSE default

\* Config.ToFlags followed by FlagSet.Parse without flag arguments
ToFlags(environ) ==
    [ BuildLocation |-> LookupEnv(environ, "BUILD_LOCATION", ""),
      GitHubAPIBaseURL |-> GoodBaseURL,
      GitHubAppID |-> LookupEnv(environ, "GITHUB_APP_ID", ""),
      GitHubWebhookKeyMountPath |-> LookupEnv(environ, "WEBHOOK_KEY_MOUNT_PATH", ""),
      GitHubWebhookKeyName |-> LookupEnv(environ, "WEBHOOK_KEY_NAME", ""),
      KMSAppPrivateKeyID |-> LookupEnv(environ, "KMS_APP_PRIVATE_KEY_ID", ""),
      Port |-> "8080",
      RunnerImageName |-> "default-runner",
      RunnerImageTag |-> "",
      RunnerProjectID |-> LookupEnv(environ, "RUNNER_PROJECT_ID", ""),
      RunnerRespositoryID |-> LookupEnv(environ, "RUNNER_REPOSITORY_ID", ""),
      RunnerServiceAccount |-> LookupEnv(environ, "RUNNER_SERVICE_ACCOUNT", "") ]

\* an error is the chain of its messages, outermost first; nil is the empty chain
Nil == <<>>

\* fmt.Errorf("<message>")
Errorf(message) == << message >>

\* fmt.Errorf("<message>: %w", err)
Wrap(message, err) == << message >> \o err

\* Config.Validate: the error it returns
ConfigValidate(cfg) ==
    IF cfg.BuildLocation = "" THEN Errorf("BUILD_LOCATION is required")
    ELSE IF cfg.GitHubAppID = "" THEN Errorf("GITHUB_APP_ID is required")
    ELSE IF cfg.GitHubWebhookKeyMountPath = "" THEN Errorf("WEBHOOK_KEY_MOUNT_PATH is required")
    ELSE IF cfg.GitHubWebhookKeyName = "" THEN Errorf("WEBHOOK_KEY_NAME is required")
    ELSE IF cfg.KMSAppPrivateKeyID = "" THEN Errorf("KMS_APP_PRIVATE_KEY_ID is required")
    ELSE IF cfg.RunnerProjectID = "" THEN Errorf("RUNNER_PROJECT_ID is required")
    ELSE IF cfg.RunnerRespositoryID = "" THEN Errorf("RUNNER_REPOSITORY_ID is required")
    ELSE IF cfg.RunnerServiceAccount = "" THEN Errorf("RUNNER_SERVICE_ACCOUNT is required")
    ELSE Nil

\* the step of NewServer and serving.New that fails first, "" for none
Failures == { "", "read webhook secret", "create app signer", "setup app client",
              "create cloudbuild client", "create serving infrastructure" }

\* the error of NewServer and serving.New as RunUnstarted returns it
StartError(failure) ==
    IF failure = "" THEN Nil
    ELSE IF failure = "create serving infrastructure"
         THEN Wrap("failed to create serving infrastructure", Errorf("listen"))
         ELSE Wrap("failed to create server",
                   Wrap("failed to " \o failure, Errorf("unavailable")))

\* the zero Server: no server has been created
NoServer ==
    [ cbc |-> "", ghAPIBaseURL |-> "", kmc |-> "",
      runnerImageName |-> "", runnerImageTag |-> "",
      runnerLocation |-> "", runnerProjectID |-> "", runnerRepositoryID |-> "",
      runnerServiceAccount |-> "", runnerWorkerPoolID |-> "", webhookSecret |-> "" ]

\* the Server NewServer returns for cfg
NewServer(cfg) ==
    [ cbc |-> Open,
      ghAPIBaseURL |-> cfg.GitHubAPIBaseURL,
      kmc |-> Open,
      runnerImageName |-> cfg.RunnerImageName,
      runnerImageTag |-> cfg.RunnerImageTag,
      runnerLocation |-> cfg.BuildLocation,
      runnerProjectID |-> cfg.RunnerProjectID,
      runnerRepositoryID |-> cfg.RunnerRespositoryID,
      runnerServiceAccount |-> cfg.RunnerServiceAccount,
      runnerWorkerPoolID |-> "",
      webhookSecret |-> serverGitHubWebhookSecret ]

\* the WebhookServerCommand before RunUnstarted, in environment environ
Unstarted(environ) ==
    [ args |-> <<>>, cfg |-> ToFlags({}), environ |-> environ, err |-> Nil,
      healthz |-> 0, stage |-> "unstarted" ]

\* the command after RunUnstarted(args) returned err
Ran(environ, args, err) ==
    [ args |-> args, cfg |-> ToFlags(environ), environ |-> environ, err |-> err,
      healthz |-> 0, stage |-> IF err = Nil THEN "serving" ELSE "failed" ]

\* the variables every required field finds its value in
RequiredEnv == EnvVars \ {"PROJECT_ID"}

\* the command of a server that serves webhook deliveries
Serving == Ran(RequiredEnv, <<>>, Nil)

----------------------------------------------------------------------------
(* Signatures as the bytes on the wire: generateSignature, createSignature, *)
(* and go-github's messageMAC, checkMAC and ValidateSignature               *)

\* a byte string is the sequence of its characters
TestPayload == << "{", "\"", "f", "o", "o", "\"", ":", "\"", "b", "a", "r", "\"", "}" >>
EmptyObject == << "{", "}" >>
SignedPayloads == { TestPayload, EmptyObject }

\* the secrets of TestGenerateSignature and of the command's test
SigningSecrets == { "test-secret", "secret-value" }

\* the bytes a changed payload byte can become
PayloadBytes == { "x", "0" }

\* HMAC-SHA256 of every (secret, payload) the model signs or verifies:
\* << key, message, the 32 bytes of the digest >>
HmacSHA256Sums ==
    { << "test-secret", "{\"foo\":\"bar\"}",
         << 155, 26, 191, 125, 144, 27, 218, 145, 50, 93, 0, 246, 179, 151, 251, 13,
            194, 87, 147, 121, 57, 178, 125, 77, 198, 120, 72, 171, 158, 8, 246, 192 >> >>,
      << "test-secret", "x\"foo\":\"bar\"}",
         << 139, 32, 248, 66, 85, 71, 254, 128, 98, 130, 195, 177, 201, 81, 93, 152,
            26, 213, 128, 211, 157, 182, 133, 62, 75, 156, 216, 171, 20, 18, 146, 0 >> >>,
      << "test-secret", "0\"foo\":\"bar\"}",
         << 242, 165, 115, 237, 131, 212, 187, 2, 103, 210, 135, 89, 248, 92, 185, 76,
            1, 36, 177, 129, 255, 126, 205, 215, 228, 143, 45, 174, 210, 75, 73, 44 >> >>,
      << "test-secret", "{xfoo\":\"bar\"}",
         << 196, 176, 12, 227, 180, 181, 227, 111, 3, 46, 243, 157, 47, 148, 223, 147,
            38, 186, 112, 100, 221, 212, 167, 248, 166, 53, 173, 78, 147, 35, 247, 104 >> >>,
      << "test-secret", "{0foo\":\"bar\"}",
         << 99, 211, 201, 95, 45, 1, 224, 79, 91, 88, 81, 8, 25, 46, 73, 65,
            198, 109, 194, 29, 79, 31, 124, 166, 6, 193, 68, 65, 54, 221, 23, 45 >> >>,
      << "test-secret", "{\"xoo\":\"bar\"}",
         << 95, 137, 217, 189, 85, 108, 17, 35, 155, 141, 253, 156, 245, 12, 112, 92,
            9, 61, 109, 55, 12, 213, 171, 189, 225, 21, 18, 39, 234, 215, 161, 68 >> >>,
      << "test-secret", "{\"0oo\":\"bar\"}",
         << 16, 6, 38, 223, 237, 233, 71, 196, 204, 201, 11, 203, 182, 89, 103, 73,
            89, 76, 44, 77, 244, 174, 58, 212, 162, 173, 71, 62, 199, 18, 195, 174 >> >>,
      << "test-secret", "{\"fxo\":\"bar\"}",
         << 235, 44, 54, 181, 169, 30, 114, 226, 220, 84, 57, 32, 114, 180, 227, 144,
            167, 228, 66, 147, 137, 72, 68, 197, 166, 46, 24, 94, 117, 39, 3, 147 >> >>,
      << "test-secret", "{\"f0o\":\"bar\"}",
         << 64, 11, 79, 181, 130, 155, 255, 144, 251, 47, 95, 174, 183, 221, 27, 212,
            139, 90, 48, 19, 97, 241, 39, 227, 69, 181, 73, 233, 90, 11, 157, 197 >> >>,
      << "test-secret", "{\"fox\":\"bar\"}",
         << 234, 215, 193, 21, 19, 140, 136, 70, 63, 1, 161, 194, 59, 123, 54, 100,
            17, 192, 27, 65, 106, 122, 125, 54, 208, 165, 103, 153, 147, 231, 38, 49 >> >>,
      << "test-secret", "{\"fo0\":\"bar\"}",
         << 51, 44, 125, 5, 37, 140, 170, 41, 84, 1, 42, 61, 128, 59, 73, 75,
            100, 10, 37, 217, 79, 90, 62, 169, 221, 189, 185, 63, 80, 162, 50, 240 >> >>,
      << "test-secret", "{\"foox:\"bar\"}",
         << 213, 53, 157, 76, 49, 89, 108, 198, 147, 214, 231, 82, 10, 153, 171, 61,
            210, 178, 100, 219, 213, 243, 229, 173, 88, 67, 31, 107, 236, 101, 74, 15 >> >>,
      << "test-secret", "{\"foo0:\"bar\"}",
         << 112, 175, 76, 94, 195, 249, 210, 130, 165, 228, 181, 216, 70, 27, 118, 176,
            119, 90, 76, 170, 115, 99, 183, 162, 176, 77, 181, 100, 180, 80, 80, 163 >> >>,
      << "test-secret", "{\"foo\"x\"bar\"}",
         << 139, 13, 225, 229, 0, 106, 104, 7, 197, 153, 7, 232, 59, 153, 220, 73,
            96, 21, 44, 46, 48, 107, 133, 164, 233, 195, 215, 188, 250, 205, 177, 202 >> >>,
      << "test-secret", "{\"foo\"0\"bar\"}",
         << 207, 107, 243, 195, 44, 121, 167, 77, 156, 125, 42, 16, 88, 82, 220, 240,
            175, 0, 230, 248, 167, 177, 154, 158, 94, 10, 136, 91, 119, 162, 15, 226 >> >>,
      << "test-secret", "{\"foo\":xbar\"}",
         << 129, 14, 245, 152, 172, 158, 135, 138, 14, 114, 155, 173, 43, 96, 136, 143,
            50, 12, 152, 60, 121, 73, 17, 97, 198, 142, 139, 243, 43, 229, 140, 138 >> >>,
      << "test-secret", "{\"foo\":0bar\"}",
         << 164, 251, 243, 6, 139, 153, 46, 84, 221, 232, 210, 10, 137, 175, 193, 135,
            91, 136, 107, 124, 129, 204, 192, 149, 15, 193, 171, 97, 66, 207, 149, 70 >> >>,
      << "test-secret", "{\"foo\":\"xar\"}",
         << 119, 232, 237, 94, 63, 178, 244, 142, 84, 47, 112, 183, 82, 75, 248, 10,
            164, 184, 237, 236, 20, 74, 62, 5, 235, 206, 161, 180, 232, 162, 0, 192 >> >>,
      << "test-secret", "{\"foo\":\"0ar\"}",
         << 234, 225, 11, 194, 34, 168, 190, 172, 51, 30, 65, 152, 2, 33, 64, 150,
            241, 242, 112, 130, 61, 198, 1, 175, 179, 108, 227, 92, 116, 171, 34, 72 >> >>,
      << "test-secret", "{\"foo\":\"bxr\"}",
         << 205, 228, 104, 195, 205, 1, 194, 216, 41, 183, 73, 5, 169, 202, 45, 21,
            2, 110, 107, 21, 183, 135, 158, 137, 143, 231, 117, 204, 85, 164, 56, 75 >> >>,
      << "test-secret", "{\"foo\":\"b0r\"}",
         << 101, 139, 167, 169, 14, 146, 43, 53, 24, 219, 48, 71, 89, 13, 64, 40,
            68, 14, 59, 158, 186, 242, 50, 221, 61, 158, 110, 230, 160, 111, 214, 201 >> >>,
      << "test-secret", "{\"foo\":\"bax\"}",
         << 55, 58, 174, 122, 69, 103, 124, 78, 20, 85, 100, 66, 25, 242, 215, 11,
            106, 19, 145, 14, 11, 217, 237, 223, 207, 171, 93, 208, 38, 198, 163, 84 >> >>,
      << "test-secret", "{\"foo\":\"ba0\"}",
         << 139, 165, 106, 85, 229, 87, 111, 145, 38, 64, 154, 82, 10, 124, 67, 42,
            50, 100, 232, 106, 17, 219, 171, 25, 173, 51, 138, 63, 243, 102, 203, 145 >> >>,
      << "test-secret", "{\"foo\":\"barx}",
         << 241, 232, 217, 147, 22, 187, 19, 170, 1, 151, 240, 139, 94, 250, 35, 47,
            166, 194, 228, 16, 209, 208, 253, 53, 14, 105, 206, 3, 168, 8, 3, 214 >> >>,
      << "test-secret", "{\"foo\":\"bar0}",
         << 161, 20, 35, 13, 228, 157, 59, 82, 21, 170, 83, 83, 181, 79, 103, 137,
            58, 163, 74, 29, 117, 156, 178, 206, 142, 223, 248, 76, 231, 211, 79, 128 >> >>,
      << "test-secret", "{\"foo\":\"bar\"x",
         << 58, 35, 102, 45, 199, 37, 173, 73, 109, 24, 49, 42, 155, 74, 137, 7,
            183, 90, 212, 170, 207, 204, 234, 104, 170, 92, 161, 22, 105, 142, 119, 76 >> >>,
      << "test-secret", "{\"foo\":\"bar\"0",
         << 100, 225, 78, 196, 23, 97, 180, 112, 18, 138, 147, 61, 253, 235, 3, 249,
            106, 146, 155, 81, 230, 155, 115, 180, 7, 247, 231, 143, 97, 95, 205, 98 >> >>,
      << "test-secret", "{}",
         << 47, 89, 4, 11, 99, 183, 32, 5, 152, 68, 66, 57, 218, 44, 154, 79,
            58, 188, 92, 67, 66, 89, 178, 49, 38, 215, 37, 20, 218, 184, 205, 9 >> >>,
      << "test-secret", "x}",
         << 185, 249, 145, 82, 135, 35, 109, 29, 175, 113, 35, 220, 103, 33, 209, 87,
            250, 211, 202, 40, 0, 235, 172, 225, 40, 252, 224, 82, 89, 48, 3, 221 >> >>,
      << "test-secret", "0}",
         << 165, 243, 92, 227, 144, 46, 122, 135, 157, 139, 213, 102, 195, 95, 132, 243,
            156, 211, 209, 48, 148, 138, 17, 221, 181, 103, 123, 108, 227, 86, 192, 134 >> >>,
      << "test-secret", "{x",
         << 5, 201, 83, 204, 191, 134, 123, 6, 131, 227, 153, 137, 149, 224, 97, 111,
            38, 68, 206, 36, 110, 37, 75, 67, 136, 154, 197, 108, 59, 121, 238, 172 >> >>,
      << "test-secret", "{0",
         << 157, 233, 56, 45, 191, 128, 104, 184, 23, 83, 164, 69, 206, 183, 182, 34,
            51, 72, 115, 56, 55, 190, 190, 102, 211, 252, 39, 34, 3, 59, 157, 128 >> >>,
      << "secret-value", "{\"foo\":\"bar\"}",
         << 188, 129, 135, 160, 32, 112, 71, 249, 182, 220, 161, 207, 231, 196, 177, 167,
            229, 10, 34, 171, 64, 169, 212, 54, 137, 38, 100, 65, 71, 13, 217, 250 >> >>,
      << "secret-value", "x\"foo\":\"bar\"}",
         << 193, 188, 91, 7, 80, 62, 133, 240, 44, 232, 54, 47, 131, 245, 73, 7,
            163, 74, 53, 73, 61, 246, 102, 57, 180, 245, 201, 125, 100, 75, 98, 124 >> >>,
      << "secret-value", "0\"foo\":\"bar\"}",
         << 227, 225, 56, 171, 186, 145, 194, 76, 121, 4, 31, 145, 194, 207, 225, 140,
            127, 214, 26, 11, 71, 76, 186, 10, 86, 126, 144, 232, 181, 76, 243, 98 >> >>,
      << "secret-value", "{xfoo\":\"bar\"}",
         << 89, 168, 50, 85, 144, 195, 111, 243, 191, 69, 90, 199, 10, 195, 32, 229,
            105, 66, 196, 188, 105, 121, 97, 113, 225, 227, 104, 124, 61, 171, 95, 185 >> >>,
      << "secret-value", "{0foo\":\"bar\"}",
         << 109, 200, 252, 147, 246, 238, 165, 200, 66, 14, 233, 197, 65, 140, 6, 251,
            115, 97, 234, 16, 107, 71, 245, 177, 187, 193, 206, 241, 245, 94, 108, 66 >> >>,
      << "secret-value", "{\"xoo\":\"bar\"}",
         << 17, 134, 74, 31, 238, 172, 247, 30, 196, 115, 93, 186, 140, 209, 208, 136,
            119, 214, 227, 189, 58, 253, 101, 191, 117, 85, 206, 135, 51, 183, 234, 210 >> >>,
      << "secret-value", "{\"0oo\":\"bar\"}",
         << 134, 42, 242, 32, 23, 186, 178, 219, 116, 82, 246, 32, 68, 83, 93, 246,
            61, 3, 77, 229, 202, 116, 3, 140, 23, 251, 160, 246, 98, 176, 251, 126 >> >>,
      << "secret-value", "{\"fxo\":\"bar\"}",
         << 9, 0, 130, 3, 142, 153, 39, 154, 233, 76, 155, 11, 81, 216, 161, 88,
            209, 247, 29, 81, 130, 130, 18, 158, 81, 165, 23, 105, 190, 169, 208, 236 >> >>,
      << "secret-value", "{\"f0o\":\"bar\"}",
         << 216, 185, 201, 204, 160, 32, 207, 235, 211, 255, 88, 199, 246, 3, 133, 98,
            89, 173, 62, 93, 69, 191, 180, 125, 241, 50, 165, 111, 28, 51, 6, 147 >> >>,
      << "secret-value", "{\"fox\":\"bar\"}",
         << 162, 79, 96, 16, 239, 123, 182, 23, 217, 114, 170, 53, 164, 252, 28, 243,
            146, 162, 69, 26, 194, 238, 224, 252, 215, 79, 165, 235, 104, 118, 77, 87 >> >>,
      << "secret-value", "{\"fo0\":\"bar\"}",
         << 255, 222, 57, 7, 4, 116, 79, 70, 14, 206, 187, 75, 202, 150, 206, 86,
            104, 16, 106, 61, 210, 31, 127, 159, 220, 85, 85, 201, 155, 94, 164, 193 >> >>,
      << "secret-value", "{\"foox:\"bar\"}",
         << 52, 254, 5, 6, 189, 152, 17, 178, 117, 82, 99, 85, 114, 71, 124, 231,
            33, 9, 52, 24, 164, 169, 178, 188, 109, 89, 173, 224, 214, 121, 39, 69 >> >>,
      << "secret-value", "{\"foo0:\"bar\"}",
         << 16, 240, 166, 229, 131, 216, 82, 42, 33, 223, 2, 75, 59, 98, 183, 183,
            51, 136, 223, 180, 173, 185, 222, 82, 183, 85, 231, 178, 54, 152, 82, 250 >> >>,
      << "secret-value", "{\"foo\"x\"bar\"}",
         << 214, 190, 47, 95, 237, 226, 246, 139, 76, 64, 40, 147, 142, 237, 252, 167,
            189, 244, 64, 236, 156, 11, 78, 122, 119, 182, 82, 104, 21, 91, 175, 155 >> >>,
      << "secret-value", "{\"foo\"0\"bar\"}",
         << 218, 222, 34, 238, 163, 224, 108, 13, 17, 181, 172, 110, 159, 193, 104, 231,
            248, 73, 40, 19, 158, 235, 164, 200, 210, 212, 28, 165, 23, 141, 69, 117 >> >>,
      << "secret-value", "{\"foo\":xbar\"}",
         << 123, 116, 134, 109, 220, 170, 137, 4, 109, 151, 128, 128, 26, 132, 60, 14,
            187, 214, 121, 49, 223, 206, 250, 226, 152, 144, 46, 2, 158, 243, 181, 186 >> >>,
      << "secret-value", "{\"foo\":0bar\"}",
         << 77, 177, 57, 219, 197, 102, 71, 103, 245, 157, 176, 41, 243, 142, 124, 178,
            71, 221, 172, 52, 106, 53, 254, 238, 124, 61, 235, 22, 97, 54, 236, 118 >> >>,
      << "secret-value", "{\"foo\":\"xar\"}",
         << 196, 79, 165, 197, 75, 75, 224, 123, 101, 62, 93, 13, 249, 241, 121, 172,
            178, 160, 213, 147, 81, 187, 233, 144, 130, 43, 123, 55, 76, 137, 188, 88 >> >>,
      << "secret-value", "{\"foo\":\"0ar\"}",
         << 26, 13, 138, 22, 187, 25, 32, 88, 139, 160, 115, 128, 94, 66, 121, 49,
            248, 46, 49, 215, 80, 57, 55, 200, 200, 99, 92, 96, 145, 147, 30, 183 >> >>,
      << "secret-value", "{\"foo\":\"bxr\"}",
         << 20, 150, 243, 101, 6, 247, 141, 51, 120, 94, 117, 152, 248, 127, 110, 177,
            210, 86, 121, 16, 243, 252, 183, 96, 158, 73, 137, 118, 180, 129, 17, 183 >> >>,
      << "secret-value", "{\"foo\":\"b0r\"}",
         << 181, 129, 143, 214, 104, 18, 200, 73, 153, 36, 176, 20, 188, 100, 215, 202,
            197, 75, 61, 110, 148, 235, 195, 231, 103, 45, 66, 166, 21, 192, 120, 36 >> >>,
      << "secret-value", "{\"foo\":\"bax\"}",
         << 63, 221, 248, 137, 175, 41, 17, 60, 29, 51, 240, 155, 173, 118, 107, 184,
            248, 59, 251, 3, 171, 204, 230, 253, 191, 179, 213, 37, 129, 93, 207, 179 >> >>,
      << "secret-value", "{\"foo\":\"ba0\"}",
         << 209, 243, 126, 236, 58, 176, 65, 173, 235, 197, 12, 235, 171, 21, 228, 83,
            76, 27, 242, 127, 99, 248, 75, 130, 158, 39, 251, 175, 48, 134, 162, 204 >> >>,
      << "secret-value", "{\"foo\":\"barx}",
         << 111, 136, 82, 61, 100, 37, 13, 51, 254, 141, 204, 233, 46, 57, 226, 86,
            139, 80, 16, 188, 51, 103, 136, 135, 55, 28, 126, 197, 187, 240, 31, 138 >> >>,
      << "secret-value", "{\"foo\":\"bar0}",
         << 95, 133, 123, 210, 213, 243, 79, 77, 162, 71, 122, 219, 23, 95, 23, 116,
            148, 119, 71, 179, 123, 63, 73, 66, 135, 2, 196, 60, 202, 205, 68, 156 >> >>,
      << "secret-value", "{\"foo\":\"bar\"x",
         << 108, 144, 117, 6, 6, 48, 75, 213, 222, 0, 123, 56, 103, 10, 30, 104,
            61, 164, 249, 39, 161, 127, 18, 119, 156, 219, 150, 144, 206, 108, 68, 81 >> >>,
      << "secret-value", "{\"foo\":\"bar\"0",
         << 6, 120, 184, 205, 153, 224, 51, 198, 130, 104, 212, 17, 30, 9, 159, 1,
            172, 153, 198, 92, 205, 252, 152, 145, 81, 205, 18, 67, 32, 79, 233, 180 >> >>,
      << "secret-value", "{}",
         << 174, 60, 160, 152, 178, 149, 206, 220, 110, 179, 235, 248, 184, 53, 255, 0,
            169, 152, 178, 2, 208, 249, 33, 72, 164, 220, 141, 111, 168, 74, 114, 217 >> >>,
      << "secret-value", "x}",
         << 130, 139, 60, 141, 38, 247, 185, 248, 172, 132, 25, 134, 248, 98, 139, 184,
            140, 228, 210, 42, 26, 132, 40, 132, 235, 39, 178, 250, 253, 235, 12, 84 >> >>,
      << "secret-value", "0}",
         << 152, 231, 5, 28, 73, 109, 159, 82, 46, 124, 137, 41, 2, 20, 64, 24,
            208, 155, 135, 222, 167, 46, 162, 200, 72, 83, 33, 15, 142, 60, 36, 117 >> >>,
      << "secret-value", "{x",
         << 130, 89, 50, 250, 130, 187, 47, 131, 182, 169, 37, 37, 48, 58, 68, 24,
            248, 124, 106, 200, 187, 248, 49, 170, 94, 191, 204, 251, 59, 43, 123, 15 >> >>,
      << "secret-value", "{0",
         << 27, 14, 31, 91, 12, 134, 226, 3, 250, 195, 241, 60, 0, 165, 86, 239,
            78, 171, 184, 114, 7, 176, 125, 6, 164, 125, 34, 153, 138, 84, 236, 211 >> >> }

\* mac.Write(message) and mac.Sum(nil) of hmac.New(sha256.New, key)
HmacSum(key, message) ==
    (CHOOSE t \in HmacSHA256Sums : t[1] = key /\ t[2] = Str(message))[3]

\* hex.EncodeToString's table
hextable ==
    << "0", "1", "2", "3", "4", "5", "6", "7", "8", "9", "a", "b", "c", "d", "e", "f" >>

RECURSIVE EncodeToString(_)
\* hex.EncodeToString: two lower-case hex digits for every byte
EncodeToString(src) ==
    IF src = <<>> THEN <<>>
    ELSE << hextable[(Head(src) \div 16) + 1], hextable[(Head(src) % 16) + 1] >>
         \o EncodeToString(Tail(src))

\* hex.fromHexChar: the value of a hex digit of either case, None for other bytes
fromHexChar(c) ==
    LET lower == { i \in 1..16 : hextable[i] = c }
        upper == { i \in 1..6 : << "A", "B", "C", "D", "E", "F" >>[i] = c }
    IN  IF lower # {} THEN Some((CHOOSE i \in lower : TRUE) - 1)
        ELSE IF upper # {} THEN Some((CHOOSE i \in upper : TRUE) + 9)
        ELSE None

RECURSIVE DecodeString(_)
\* hex.DecodeString: the bytes, or None for a digit that is none or an odd length
DecodeString(src) ==
    IF src = <<>> THEN Some(<<>>)
    ELSE IF Len(src) = 1 THEN None
    ELSE LET a == fromHexChar(src[1])
             b == fromHexChar(src[2])
             rest == DecodeString(Tail(Tail(src)))
         IN  IF IsNil(a) \/ IsNil(b) \/ IsNil(rest) THEN None
             ELSE Some(<< Deref(a) * 16 + Deref(b) >> \o Deref(rest))

\* webhook_test.go createSignature: the hex digest of the payload
createSignature(key, payload) == EncodeToString(HmacSum(key, payload))

\* generateSignature that leaves out the "sha256=" prefix
generateSignatureWithoutPrefix(payload, secret) == EncodeToString(HmacSum(secret, payload))

\* cmd/webhook-tester generateSignature, byte for byte: "sha256=" and the hex digest
generateSignatureBytes(payload, secret) ==
    << "s", "h", "a", "2", "5", "6", "=" >> \o EncodeToString(HmacSum(secret, payload))

\* strings.SplitN(signature, "=", 2): the parts before and after the first "="
SplitN(signature) ==
    LET eqs == { i \in 1..Len(signature) : signature[i] = "=" }
    IN  IF eqs = {} THEN << signature >>
        ELSE LET i == CHOOSE i \in eqs : \A j \in eqs : i <= j
             IN  << SubSeq(signature, 1, i - 1), SubSeq(signature, i + 1, Len(signature)) >>

\* the hash prefixes go-github knows
HashPrefixes == { "sha1", "sha256", "sha512" }

\* go-github messageMAC: the MAC a signature header carries, its hash, the error
messageMAC(signature) ==
    IF signature = <<>> THEN << None, "", Some("missing signature") >>
    ELSE LET sigParts == SplitN(signature)
         IN  IF Len(sigParts) # 2 THEN << None, "", Some("error parsing signature") >>
             ELSE IF Str(sigParts[1]) \notin HashPrefixes
                  THEN << None, "", Some("unknown hash type prefix") >>
             ELSE IF IsNil(DecodeString(sigParts[2]))
                  THEN << None, "", Some("error decoding signature") >>
             ELSE << DecodeString(sigParts[2]), Str(sigParts[1]), None >>

\* go-github genMAC; only the SHA-256 digests are tabulated
genMAC(message, key, hashFunc) ==
    (CHOOSE t \in HmacSHA256Sums :
        hashFunc = "sha256" /\ t[1] = key /\ t[2] = Str(message))[3]

\* go-github checkMAC: hmac.Equal of the carried and the computed MAC
checkMAC(message, mac, key, hashFunc) == mac = genMAC(message, key, hashFunc)

\* go-github ValidateSignature on the bytes of the header: None when accepted
ValidateSignatureBytes(signature, payload, secretToken) ==
    LET parsed == messageMAC(signature)
    IN  IF ~IsNil(parsed[3]) THEN parsed[3]
        ELSE IF ~checkMAC(payload, Deref(parsed[1]), secretToken, parsed[2])
             THEN Some("payload signature check failed")
        ELSE None

\* the signing exchange before anything was signed
Unsigned(payload, secret) ==
    [ at |-> 0, changed |-> "none", payload |-> payload, secret |-> secret,
      signature |-> <<>>, stage |-> "unsigned", verdict |-> None, was |-> "" ]

\* no signing exchange takes place
NoSigning == Unsigned(<<>>, "")

----------------------------------------------------------------------------
(* The state of the program *)

Deliveries == 1..MaxDeliveries

\* the encoded JIT configs GitHub can hand out
JITTokens == { TestEncodedJitConfig, "World" }

VARIABLES
    server,     \* the Server struct (read-only after NewServer)
    cmd,        \* the WebhookServerCommand that starts the server
    signing,    \* a payload that is signed, changed on the wire and verified
    builds,     \* builds[d]: the build Cloud Build runs for delivery d, <<>> before it starts
    pc,         \* pc[d]: where the handler goroutine of delivery d stands
    env,        \* env[d]: the request of delivery d, <<>> before it arrives
    event,      \* event[d]: what ParseWebHook returned
    runnerID,   \* runnerID[d]: the local runnerID of processRequest
    jitConfig,  \* jitConfig[d]: the local jitConfig of processRequest
    outcome,    \* outcome[d]: the *apiResponse processRequest returned
    resp,       \* resp[d]: what was written to the http.ResponseWriter
    calls,      \* outbound calls in the order they were made (GitHub, Cloud Build)
    logs        \* log entries in the order they were written

vars == << server, cmd, signing, builds, pc, env, event, runnerID, jitConfig, outcome, resp, calls, logs >>

apiResponse(code, message, err) == [ Code |-> code, Error |-> err, Message |-> message ]


----------------------------------------------------------------------------
(* github.ValidatePayload and github.ParseWebHook (go-github v69), as called *)

\* ValidateSignature that lets a request without a signature header through
ValidateSignatureOptional(signature, payload, secretToken) ==
    IF IsNil(signature) THEN None
    ELSE IF Deref(signature).prefix \notin HashPrefixes THEN Some("unknown hash type prefix")
    ELSE IF IsNil(Deref(signature).hex) THEN Some("error decoding signature")
    ELSE IF Deref(Deref(signature).hex) # HmacSHA256(secretToken, payload)
         THEN Some("payload signature check failed")
    ELSE None

\* github.ValidateSignature: <<>> when the signature is accepted, else the error
ValidateSignature(signature, payload, secretToken) ==
    IF IsNil(signature) THEN Some("missing signature")
    ELSE IF Deref(signature).prefix \notin HashPrefixes THEN Some("unknown hash type prefix")
    ELSE IF IsNil(Deref(signature).hex) THEN Some("error decoding signature")
    ELSE IF Deref(Deref(signature).hex) # HmacSHA256(secretToken, payload)
         THEN Some("payload signature check failed")
    ELSE None

\* github.ValidatePayload: the signature is checked when a secret is configured
\* or a signature is present
ValidatePayload(r, secretToken) ==
    IF secretToken # "" \/ ~IsNil(r.signature)
    THEN ValidateSignature(r.signature, r.body, secretToken)
    ELSE None

\* the Go type go-github decodes an event name into (eventTypeMapping)
EventGoType(eventType) ==
    CASE eventType = "workflow_job" -> Some("*github.WorkflowJobEvent")
      [] eventType = "push"         -> Some("*github.PushEvent")
      [] OTHER                      -> None

\* the event ParseWebHook builds from a decoded payload
ParsedEvent(eventType, payload) ==
    [ Action |-> payload.Action,
      GoType |-> Deref(EventGoType(eventType)),
      Installation |-> payload.Installation,
      Org |-> payload.Org,
      Repo |-> payload.Repo,
      WorkflowJob |-> payload.WorkflowJob ]

\* ParseWebHook that drops the JSON decoding error
ParseWebHookIgnoresJSONError(eventType, payload) ==
    IF IsNil(EventGoType(eventType))
    THEN [ err |-> Some("unknown X-Github-Event in message"), event |-> None ]
    ELSE [ err |-> None, event |-> Some(ParsedEvent(eventType, payload)) ]

\* github.ParseWebHook: [err, event]
ParseWebHook(eventType, payload) ==
    IF IsNil(EventGoType(eventType))
    THEN [ err |-> Some("unknown X-Github-Event in message"), event |-> None ]
    ELSE IF ~payload.decodable
    THEN [ err |-> Some("unexpected end of JSON input"), event |-> None ]
    ELSE [ err |-> None, event |-> Some(ParsedEvent(eventType, payload)) ]

----------------------------------------------------------------------------
(* Server.processRequest: the switch on the parsed event, up to the first     *)
(* outbound call.  A Step is what that stretch of code does: the log entries  *)
(* it writes and how it ends (a return, a panic, or going on to dispatch).    *)

Return(response, entries) ==
    [ entries |-> entries, kind |-> "return", response |-> Some(response), runnerID |-> "" ]
Panic(entries) ==
    [ entries |-> entries, kind |-> "panic", response |-> None, runnerID |-> "" ]
Dispatch(id, entries) ==
    [ entries |-> entries, kind |-> "dispatch", response |-> None, runnerID |-> id ]

Entry(level, msg, fields) == [ fields |-> fields, level |-> level, msg |-> msg ]

\* var jobID string; set when WorkflowJob and its ID are present
JobIDString(ev) ==
    IF ~IsNil(ev.WorkflowJob) /\ ~IsNil(Deref(ev.WorkflowJob).ID)
    THEN FormatInt(Deref(Deref(ev.WorkflowJob).ID))
    ELSE ""

\* RunnerID that names every runner alike
RunnerIDFixed(ev) == "GCP-runner"

RunnerID(ev) == "GCP-" \o JobIDString(ev)

\* building baseLogFields dereferences WorkflowJob, WorkflowJob.RunID and
\* WorkflowJob.ID without a nil check
BaseLogFieldsPanics(ev) ==
    \/ IsNil(ev.WorkflowJob)
    \/ IsNil(Deref(ev.WorkflowJob).RunID)
    \/ IsNil(Deref(ev.WorkflowJob).ID)

\* baseLogFields, but for the job's name and timestamps, which are not members
\* of the modelled payload
BaseLogFields(ev) ==
    << <<"action_event_name", Deref(ev.Action)>>,
       <<"gh_run_id", FormatInt(Deref(Deref(ev.WorkflowJob).RunID))>>,
       <<"gh_job_id", FormatInt(Deref(Deref(ev.WorkflowJob).ID))>>,
       <<"job_id", JobIDString(ev)>>,
       <<"runner_id", RunnerID(ev)>> >>

\* the check that guards GenerateRepoJITConfig's dereferences
MissingRequiredFields(ev) ==
    \/ IsNil(ev.Installation) \/ IsNil(Deref(ev.Installation).ID)
    \/ IsNil(ev.Org) \/ IsNil(Deref(ev.Org).Login)
    \/ IsNil(ev.Repo) \/ IsNil(Deref(ev.Repo).Name)

\* case "queued"
RouteQueued(ev) ==
    LET base == BaseLogFields(ev)
        labels == Deref(ev.WorkflowJob).Labels
        queuedEntry == Entry("INFO", "Workflow job queued", base)
        missingErr == "event is missing required fields (installation, org, or repo)"
    IN  IF ~SeqContains(labels, defaultRunnerLabel)
        THEN Return(apiResponse(StatusOK,
                                T("no action taken for labels: ") \o SprintLabels(labels),
                                None),
                    << queuedEntry,
                       Entry("INFO", "no action taken for labels",
                             Append(base, <<"labels", Str(SprintLabels(labels))>>)) >>)
        ELSE IF MissingRequiredFields(ev)
        THEN Return(apiResponse(StatusBadRequest,
                                T("unexpected event payload struture"),
                                Some(missingErr)),
                    << queuedEntry,
                       Entry("ERROR", "cannot generate JIT config due to missing event data",
                             Append(base, <<"error", missingErr>>)) >>)
        ELSE Dispatch(RunnerID(ev), << queuedEntry >>)

\* case *github.WorkflowJobEvent, once event.Action is known not to be nil
RouteAction(ev) ==
    IF BaseLogFieldsPanics(ev) THEN Panic(<<>>)
    ELSE LET base == BaseLogFields(ev)
             action == Deref(ev.Action)
         IN  CASE action = "queued" -> RouteQueued(ev)
               [] action = "in_progress" ->
                    Return(apiResponse(StatusOK, T("workflow job in progress event logged"), None),
                           << Entry("INFO", "Workflow job in progress", base) >>)
               [] action = "completed" ->
                    Return(apiResponse(StatusOK, T("workflow job completed event logged"), None),
                           << Entry("INFO", "Workflow job completed", base) >>)
               [] OTHER ->
                    Return(apiResponse(StatusOK,
                                       T("no action taken for action type: ") \o SprintQuoted(action),
                                       None),
                           << Entry("INFO", "no action taken for unhandled workflow job action type",
                                    Append(base, <<"action", action>>)) >>)

\* RouteWorkflowJob without the nil-action check: *event.Action is dereferenced
RouteWorkflowJobNoNilCheck(ev) ==
    IF IsNil(ev.Action) THEN Panic(<<>>) ELSE RouteAction(ev)

\* case *github.WorkflowJobEvent
RouteWorkflowJob(ev) ==
    IF IsNil(ev.Action)
    THEN Return(apiResponse(StatusOK, T("no action taken for nil action type"), None),
                << Entry("INFO", "no action taken for nil action type", <<>>) >>)
    ELSE RouteAction(ev)

\* RouteEvent with a default case that ignores the event and reports success
RouteEventIgnoresOthers(ev, payload) ==
    IF ev.GoType = "*github.WorkflowJobEvent"
    THEN RouteWorkflowJob(ev)
    ELSE Return(apiResponse(StatusOK, T("no action taken"), None), <<>>)

\* switch event := event.(type); the default case logs the whole payload
RouteEvent(ev, payload) ==
    IF ev.GoType = "*github.WorkflowJobEvent"
    THEN RouteWorkflowJob(ev)
    ELSE Return(apiResponse(StatusInternalServerError,
                            T("unexpected event type dispatched from webhook"),
                            Some("event type: " \o ev.GoType)),
                << Entry("ERROR", "Received unhandled event type",
                         << <<"event_type", ev.GoType>>, <<"payload", payload>> >>) >>)

----------------------------------------------------------------------------
(* The build request processRequest constructs *)

BuildStepArgs ==
    << "-c",
       "docker run --privileged --security-opt seccomp=unconfined --security-opt apparmor=unconfined -e ENCODED_JIT_CONFIG=$_ENCODED_JIT_CONFIG $_REPOSITORY_ID/$_IMAGE_NAME:$_IMAGE_TAG" >>

\* BuildRequest with the image name where the image tag belongs
BuildRequestTagSlip(s, token) ==
    [ Logging |-> "CLOUD_LOGGING_ONLY",
      Parent |-> "projects/" \o s.runnerProjectID \o "/locations/" \o s.runnerLocation,
      Pool |-> IF s.runnerWorkerPoolID # "" THEN Some(s.runnerWorkerPoolID) ELSE None,
      ProjectId |-> s.runnerProjectID,
      ServiceAccount |-> s.runnerServiceAccount,
      Step |-> [ Args |-> BuildStepArgs, Entrypoint |-> "bash", Id |-> "run",
                 Name |-> "gcr.io/cloud-builders/docker" ],
      Substitutions |-> [ _ENCODED_JIT_CONFIG |-> token,
                          _IMAGE_NAME |-> s.runnerImageName,
                          _IMAGE_TAG |-> s.runnerImageName,
                          _REPOSITORY_ID |-> s.runnerRepositoryID ] ]

\* BuildRequest that never sets the pool option
BuildRequestWithoutPool(s, token) ==
    [ Logging |-> "CLOUD_LOGGING_ONLY",
      Parent |-> "projects/" \o s.runnerProjectID \o "/locations/" \o s.runnerLocation,
      Pool |-> None,
      ProjectId |-> s.runnerProjectID,
      ServiceAccount |-> s.runnerServiceAccount,
      Step |-> [ Args |-> BuildStepArgs, Entrypoint |-> "bash", Id |-> "run",
                 Name |-> "gcr.io/cloud-builders/docker" ],
      Substitutions |-> [ _ENCODED_JIT_CONFIG |-> token,
                          _IMAGE_NAME |-> s.runnerImageName,
                          _IMAGE_TAG |-> s.runnerImageTag,
                          _REPOSITORY_ID |-> s.runnerRepositoryID ] ]

BuildRequest(s, token) ==
    [ Logging |-> "CLOUD_LOGGING_ONLY",
      Parent |-> "projects/" \o s.runnerProjectID \o "/locations/" \o s.runnerLocation,
      Pool |-> IF s.runnerWorkerPoolID # "" THEN Some(s.runnerWorkerPoolID) ELSE None,
      ProjectId |-> s.runnerProjectID,
      ServiceAccount |-> s.runnerServiceAccount,
      Step |-> [ Args |-> BuildStepArgs, Entrypoint |-> "bash", Id |-> "run",
                 Name |-> "gcr.io/cloud-builders/docker" ],
      Substitutions |-> [ _ENCODED_JIT_CONFIG |-> token,
                          _IMAGE_NAME |-> s.runnerImageName,
                          _IMAGE_TAG |-> s.runnerImageTag,
                          _REPOSITORY_ID |-> s.runnerRepositoryID ] ]

\* the registration name of the JIT config: the runner identity processRequest
\* hands to GenerateRepoJITConfig
RegistrationName(id) == id

\* generateJITConfig that asks for the repository's config whatever repo is
ScopedJITConfigCallRepoOnly(org, repo, name) ==
    [ req |-> [ Labels |-> << defaultRunnerLabel, T("Linux"), T("X64") >>,
                Name |-> name,
                Org |-> org,
                Repo |-> IF IsNil(repo) THEN "" ELSE Deref(repo),
                RunnerGroupID |-> 1 ],
      svc |-> "GenerateRepoJITConfig" ]

\* generateJITConfig's choice: gh.Actions.GenerateRepoJITConfig when repo is
\* not nil, else gh.Actions.GenerateOrgJITConfig, and the request it sends
ScopedJITConfigCall(org, repo, name) ==
    IF ~IsNil(repo)
    THEN [ req |-> [ Labels |-> << defaultRunnerLabel, T("Linux"), T("X64") >>,
                     Name |-> name,
                     Org |-> org,
                     Repo |-> Deref(repo),
                     RunnerGroupID |-> 1 ],
           svc |-> "GenerateRepoJITConfig" ]
    ELSE [ req |-> [ Labels |-> << defaultRunnerLabel, T("Linux"), T("X64") >>,
                     Name |-> name,
                     Org |-> org,
                     RunnerGroupID |-> 1 ],
           svc |-> "GenerateOrgJITConfig" ]

\* the request generateJITConfig sends for a repository
JITConfigRequest(ev, name) ==
    ScopedJITConfigCall(Deref(Deref(ev.Org).Login), Some(Deref(Deref(ev.Repo).Name)),
                        RegistrationName(name)).req

\* url.Parse(fmt.Sprintf("%s/", s.ghAPIBaseURL)) succeeds
BaseURLParses(s) == s.ghAPIBaseURL # BadBaseURL

----------------------------------------------------------------------------
(* Cloud Build: the substitutions of a build, applied before its step runs *)

\* strings.Index(s, substr), counting from 1; 0 when substr does not occur
Index(s, substr) ==
    LET at == { i \in 1..(Len(s) - Len(substr) + 1) : SubSeq(s, i, i + Len(substr) - 1) = substr }
    IN  IF at = {} THEN 0 ELSE CHOOSE i \in at : \A j \in at : i <= j

RECURSIVE ReplaceAll(_, _, _)
\* strings.ReplaceAll(s, old, new)
ReplaceAll(s, old, new) ==
    LET i == Index(s, old)
    IN  IF i = 0 THEN s
        ELSE SubSeq(s, 1, i - 1) \o new \o ReplaceAll(SubSeq(s, i + Len(old), Len(s)), old, new)

\* Cloud Build's substitution of one key: $_KEY and ${_KEY} become the value
SubstituteKey(s, key, value) ==
    ReplaceAll(ReplaceAll(s, "${" \o key \o "}", value), "$" \o key, value)

\* Cloud Build's substitution of the four keys of the build request in a string
\* of a build step, done before the step runs
Substitute(s, substitutions) ==
    SubstituteKey(SubstituteKey(SubstituteKey(SubstituteKey(s,
        "_ENCODED_JIT_CONFIG", substitutions._ENCODED_JIT_CONFIG),
        "_REPOSITORY_ID", substitutions._REPOSITORY_ID),
        "_IMAGE_NAME", substitutions._IMAGE_NAME),
        "_IMAGE_TAG", substitutions._IMAGE_TAG)

\* the command line Cloud Build starts the step of req with: its entrypoint
\* and its args, substitutions applied
CommandLine(req) ==
    << req.Step.Entrypoint >>
      \o [ k \in 1..Len(req.Step.Args) |-> Substitute(req.Step.Args[k], req.Substitutions) ]

----------------------------------------------------------------------------
(* State machine *)

Stamp(d, entries) == [ i \in 1..Len(entries) |->
                         [ delivery |-> d, fields |-> entries[i].fields,
                           level |-> entries[i].level, msg |-> entries[i].msg ] ]

\* an outbound call: who made it, whether it succeeded, what was sent, to whom
Call(d, svc, req, ok) == [ delivery |-> d, ok |-> ok, req |-> req, svc |-> svc ]

\* how far a handler has come: Received 1, Verified 2, Classified 3,
\* Dispatching 4-6, processRequest returned (NoOp, Dispatched or an error) 7,
\* Responded 8
Stage(p) ==
    CASE p \in {"idle", "off"}  -> 0
      [] p = "received"         -> 1
      [] p = "verified"         -> 2
      [] p = "classified"       -> 3
      [] p = "dispatching"      -> 4
      [] p = "exchanging"       -> 5
      [] p = "building"         -> 6
      [] p = "returned"         -> 7
      [] p \in {"responded", "panicked"} -> 8

\* the variables of the deliveries, none of which has arrived
NoneArrived ==
    /\ builds = [ d \in Deliveries |-> None ]
    /\ env = [ d \in Deliveries |-> None ]
    /\ event = [ d \in Deliveries |-> None ]
    /\ runnerID = [ d \in Deliveries |-> "" ]
    /\ jitConfig = [ d \in Deliveries |-> None ]
    /\ outcome = [ d \in Deliveries |-> None ]
    /\ resp = [ d \in Deliveries |-> None ]
    /\ calls = <<>>
    /\ logs = <<>>

\* a server NewServer built, about to serve one request: delivery 1
Init ==
    /\ server \in Servers
    /\ cmd = Serving
    /\ signing = NoSigning
    /\ pc = [ d \in Deliveries |-> IF d = 1 THEN "idle" ELSE "off" ]
    /\ NoneArrived

\* a server NewServer built, about to serve MaxDeliveries requests at once
InitConcurrent ==
    /\ server \in Servers
    /\ cmd = Serving
    /\ signing = NoSigning
    /\ pc = [ d \in Deliveries |-> "idle" ]
    /\ NoneArrived

\* processRequest returns response, having written entries
Returns(d, response, entries) ==
    /\ outcome' = [ outcome EXCEPT ![d] = Some(response) ]
    /\ logs' = logs \o Stamp(d, entries)
    /\ pc' = [ pc EXCEPT ![d] = "returned" ]

\* a delivery reaches POST /webhook
Receive(d, r) ==
    /\ pc[d] = "idle"
    /\ env' = [ env EXCEPT ![d] = Some(r) ]
    /\ pc' = [ pc EXCEPT ![d] = "received" ]
    /\ UNCHANGED << server, cmd, signing, builds, event, runnerID, jitConfig, outcome, resp, calls, logs >>

\* payload, err := github.ValidatePayload(r, s.webhookSecret)
Validate(d) ==
    /\ pc[d] = "received"
    /\ LET err == ValidatePayload(Deref(env[d]), server.webhookSecret)
       IN  IF ~IsNil(err)
           THEN Returns(d, apiResponse(StatusInternalServerError,
                                       T("failed to validate payload"), err), <<>>)
           ELSE /\ pc' = [ pc EXCEPT ![d] = "verified" ]
                /\ UNCHANGED << outcome, logs >>
    /\ UNCHANGED << server, cmd, signing, builds, env, event, runnerID, jitConfig, resp, calls >>

\* event, err := github.ParseWebHook(github.WebHookType(r), payload)
Parse(d) ==
    /\ pc[d] = "verified"
    /\ LET parsed == ParseWebHook(Deref(env[d]).eventType, Deref(env[d]).body)
       IN  IF ~IsNil(parsed.err)
           THEN /\ Returns(d, apiResponse(StatusInternalServerError,
                                          T("failed to parse webhook"), parsed.err), <<>>)
                /\ UNCHANGED event
           ELSE /\ event' = [ event EXCEPT ![d] = parsed.event ]
                /\ pc' = [ pc EXCEPT ![d] = "classified" ]
                /\ UNCHANGED << outcome, logs >>
    /\ UNCHANGED << server, cmd, signing, builds, env, runnerID, jitConfig, resp, calls >>

\* Route that treats an event another delivery has already brought as done
RouteDeduplicating(d) ==
    /\ pc[d] = "classified"
    /\ IF \E o \in Deliveries \ {d} : event[o] = event[d] /\ Stage(pc[o]) > Stage("classified")
       THEN Returns(d, apiResponse(StatusOK, T("duplicate delivery"), None), <<>>)
       ELSE LET step == RouteEvent(Deref(event[d]), Deref(env[d]).body)
            IN  /\ pc' = [ pc EXCEPT ![d] = IF step.kind = "dispatch" THEN "dispatching"
                                            ELSE IF step.kind = "panic" THEN "panicked"
                                            ELSE "returned" ]
                /\ outcome' = [ outcome EXCEPT ![d] = step.response ]
                /\ logs' = logs \o Stamp(d, step.entries)
    /\ runnerID' = [ runnerID EXCEPT ![d] = RunnerID(Deref(event[d])) ]
    /\ UNCHANGED << server, cmd, signing, builds, env, event, jitConfig, resp, calls >>

\* the switch on the event, up to the call of GenerateRepoJITConfig
Route(d) ==
    /\ pc[d] = "classified"
    /\ LET step == RouteEvent(Deref(event[d]), Deref(env[d]).body)
       IN  CASE step.kind = "return" ->
                  /\ Returns(d, Deref(step.response), step.entries)
                  /\ UNCHANGED runnerID
             [] step.kind = "panic" ->
                  /\ pc' = [ pc EXCEPT ![d] = "panicked" ]
                  /\ logs' = logs \o Stamp(d, step.entries)
                  /\ UNCHANGED << outcome, runnerID >>
             [] step.kind = "dispatch" ->
                  /\ pc' = [ pc EXCEPT ![d] = "dispatching" ]
                  /\ runnerID' = [ runnerID EXCEPT ![d] = step.runnerID ]
                  /\ logs' = logs \o Stamp(d, step.entries)
                  /\ UNCHANGED outcome
    /\ UNCHANGED << server, cmd, signing, builds, env, event, jitConfig, resp, calls >>

\* ExchangeFails that classifies the failure as the client's
ExchangeFailsAsBadRequest(d, message, err) ==
    Returns(d, apiResponse(StatusBadRequest, message, Some(err)), <<>>)

\* ExchangeFails that returns the 500 without the error
ExchangeFailsWithoutError(d, message, err) ==
    Returns(d, apiResponse(StatusInternalServerError, message, None),
            << Entry("ERROR", "failed to generate JIT config",
                     BaseLogFields(Deref(event[d]))
                     \o << <<"error", err>>, <<"response_message", Str(message)>> >>) >>)

\* what processRequest does when GenerateRepoJITConfig hands back errResponse
ExchangeFails(d, message, err) ==
    Returns(d, apiResponse(StatusInternalServerError, message, Some(err)),
            << Entry("ERROR", "failed to generate JIT config",
                     BaseLogFields(Deref(event[d]))
                       \o << <<"error", err>>, <<"response_message", Str(message)>> >>) >>)

\* generateJITConfig, first half: s.appClient.InstallationForID and the base URL
ResolveInstallation(d, ok) ==
    /\ pc[d] = "dispatching"
    /\ calls' = Append(calls,
                       Call(d, "InstallationForID",
                            FormatInt(Deref(Deref(Deref(event[d]).Installation).ID)), ok))
    /\ IF ~ok
       THEN ExchangeFails(d, T("failed to setup installation client"), "installation lookup failed")
       ELSE IF ~BaseURLParses(server)
       THEN ExchangeFails(d, T("failed to set github base URL"), "missing protocol scheme")
       ELSE /\ pc' = [ pc EXCEPT ![d] = "exchanging" ]
            /\ UNCHANGED << outcome, logs >>
    /\ UNCHANGED << server, cmd, signing, builds, env, event, runnerID, jitConfig, resp >>

\* generateJITConfig, second half: gh.Actions.GenerateRepoJITConfig
RequestJITConfig(d, ok, token) ==
    /\ pc[d] = "exchanging"
    /\ calls' = Append(calls,
                       Call(d, "GenerateRepoJITConfig",
                            JITConfigRequest(Deref(event[d]), runnerID[d]), ok))
    /\ IF ~ok
       THEN /\ ExchangeFails(d, T("failed to generate jitconfig"), "github: request failed")
            /\ UNCHANGED jitConfig
       ELSE /\ jitConfig' = [ jitConfig EXCEPT ![d] = Some(token) ]
            /\ pc' = [ pc EXCEPT ![d] = "building" ]
            /\ UNCHANGED << outcome, logs >>
    /\ UNCHANGED << server, cmd, signing, builds, env, event, runnerID, resp >>

\* SubmitBuild that drops the error of CreateBuild
SubmitBuildIgnoresError(d, ok) ==
    /\ pc[d] = "building"
    /\ calls' = Append(calls, Call(d, "CreateBuild", BuildRequest(server, Deref(jitConfig[d])), ok))
    /\ Returns(d, apiResponse(StatusOK, runnerStartedMsg, None),
               << Entry("INFO", Str(runnerStartedMsg), BaseLogFields(Deref(event[d]))) >>)
    /\ UNCHANGED << server, cmd, signing, builds, env, event, runnerID, jitConfig, resp >>

\* SubmitBuild that takes the credential from a field shared by the handlers,
\* which holds the credential of whichever exchange wrote it
SubmitBuildSharedCredential(d, ok) ==
    /\ pc[d] = "building"
    /\ LET e == CHOOSE x \in Deliveries : ~IsNil(jitConfig[x])
       IN  calls' = Append(calls, Call(d, "CreateBuild", BuildRequest(server, Deref(jitConfig[e])), ok))
    /\ IF ~ok
       THEN Returns(d, apiResponse(StatusInternalServerError, T("failed to run build"),
                                   Some("failed to create cloud build build")),
                    << Entry("ERROR", "failed to run Cloud Build for runner",
                             Append(BaseLogFields(Deref(event[d])),
                                    <<"error", "failed to create cloud build build">>)) >>)
       ELSE Returns(d, apiResponse(StatusOK, runnerStartedMsg, None),
                    << Entry("INFO", Str(runnerStartedMsg), BaseLogFields(Deref(event[d]))) >>)
    /\ UNCHANGED << server, cmd, signing, builds, env, event, runnerID, jitConfig, resp >>

\* SubmitBuild that logs the substitutions of the build it submitted
SubmitBuildLogsSubstitutions(d, ok) ==
    /\ pc[d] = "building"
    /\ calls' = Append(calls, Call(d, "CreateBuild", BuildRequest(server, Deref(jitConfig[d])), ok))
    /\ IF ~ok
       THEN Returns(d, apiResponse(StatusInternalServerError, T("failed to run build"),
                                   Some("failed to create cloud build build")),
                    << Entry("ERROR", "failed to run Cloud Build for runner",
                             Append(BaseLogFields(Deref(event[d])),
                                    <<"error", "failed to create cloud build build">>)) >>)
       ELSE Returns(d, apiResponse(StatusOK, runnerStartedMsg, None),
                    << Entry("INFO", Str(runnerStartedMsg),
                             Append(BaseLogFields(Deref(event[d])),
                                    <<"substitutions",
                                      "_ENCODED_JIT_CONFIG:" \o Deref(jitConfig[d])>>)) >>)
    /\ UNCHANGED << server, cmd, signing, builds, env, event, runnerID, jitConfig, resp >>

\* s.cbc.CreateBuild(ctx, buildReq) and the return that follows it
SubmitBuild(d, ok) ==
    /\ pc[d] = "building"
    /\ calls' = Append(calls, Call(d, "CreateBuild", BuildRequest(server, Deref(jitConfig[d])), ok))
    /\ IF ~ok
       THEN Returns(d, apiResponse(StatusInternalServerError, T("failed to run build"),
                                   Some("failed to create cloud build build")),
                    << Entry("ERROR", "failed to run Cloud Build for runner",
                             Append(BaseLogFields(Deref(event[d])),
                                    <<"error", "failed to create cloud build build">>)) >>)
       ELSE Returns(d, apiResponse(StatusOK, runnerStartedMsg, None),
                    << Entry("INFO", Str(runnerStartedMsg), BaseLogFields(Deref(event[d]))) >>)
    /\ UNCHANGED << server, cmd, signing, builds, env, event, runnerID, jitConfig, resp >>

\* http.ResponseWriter: a response nothing has been written to
NewResponse == [ Body |-> "", StatusCode |-> 0, wroteHeader |-> FALSE ]

\* http.ResponseWriter.WriteHeader: the first call commits the status
WriteHeader(w, code) ==
    IF w.wroteHeader THEN w
    ELSE [ Body |-> w.Body, StatusCode |-> code, wroteHeader |-> TRUE ]

\* http.ResponseWriter.Write: commits 200 when no status was written before
Write(w, bytes) ==
    LET h == WriteHeader(w, StatusOK)
    IN  [ Body |-> h.Body \o bytes, StatusCode |-> h.StatusCode, wroteHeader |-> TRUE ]

\* WriteResponse that puts the error behind the message, unescaped
WriteResponseWithError(r) ==
    Write(WriteHeader(NewResponse, r.Code),
          Str(IF IsNil(r.Error) THEN r.Message ELSE r.Message \o <<": ", Deref(r.Error)>>))

\* WriteResponse with the two writes swapped: the body goes out first
WriteResponseBodyFirst(r) ==
    WriteHeader(Write(NewResponse, Str(EscapeString(r.Message))), r.Code)

\* w.WriteHeader(resp.Code); fmt.Fprint(w, html.EscapeString(resp.Message))
WriteResponse(r) ==
    Write(WriteHeader(NewResponse, r.Code), Str(EscapeString(r.Message)))

\* handleWebhook that waits for the operation of an accepted build to finish
\* and answers 500 when the build failed
RespondAfterBuild(d) ==
    /\ pc[d] = "returned"
    /\ (\E i \in 1..Len(calls) :
            calls[i].delivery = d /\ calls[i].svc = "CreateBuild" /\ calls[i].ok)
       => (~IsNil(builds[d]) /\ Deref(builds[d]).status # "WORKING")
    /\ LET failed == ~IsNil(builds[d]) /\ Deref(builds[d]).status = "FAILURE"
           r == IF failed
                THEN apiResponse(StatusInternalServerError, T("failed to run build"),
                                 Some("build failed"))
                ELSE Deref(outcome[d])
       IN  /\ logs' = IF ~IsNil(r.Error)
                      THEN logs \o Stamp(d, << Entry("ERROR", "error processing request",
                                                     << <<"error", Deref(r.Error)>>,
                                                        <<"code", FormatInt(r.Code)>>,
                                                        <<"body", Str(r.Message)>> >>) >>)
                      ELSE logs
           /\ resp' = [ resp EXCEPT ![d] = Some([ Body |-> WriteResponse(r).Body,
                                                  StatusCode |-> WriteResponse(r).StatusCode ]) ]
    /\ pc' = [ pc EXCEPT ![d] = "responded" ]
    /\ UNCHANGED << server, cmd, signing, builds, env, event, runnerID, jitConfig, outcome, calls >>

\* handleWebhook after processRequest returned: log, WriteHeader, Fprint
Respond(d) ==
    /\ pc[d] = "returned"
    /\ LET r == Deref(outcome[d])
       IN  /\ logs' = IF ~IsNil(r.Error)
                      THEN logs \o Stamp(d, << Entry("ERROR", "error processing request",
                                                     << <<"error", Deref(r.Error)>>,
                                                        <<"code", FormatInt(r.Code)>>,
                                                        <<"body", Str(r.Message)>> >>) >>)
                      ELSE logs
           /\ resp' = [ resp EXCEPT ![d] = Some([ Body |-> WriteResponse(r).Body,
                                                  StatusCode |-> WriteResponse(r).StatusCode ]) ]
    /\ pc' = [ pc EXCEPT ![d] = "responded" ]
    /\ UNCHANGED << server, cmd, signing, builds, env, event, runnerID, jitConfig, outcome, calls >>

\* generateJITConfig as a whole, called for slot d: the installation lookup
\* succeeds or not (installed), the base URL parses or not, the scoped request
\* succeeds with token or not (ok)
generateJITConfig(d, installationID, org, repo, name, installed, ok, token) ==
    /\ pc[d] = "idle"
    /\ env' = [ env EXCEPT ![d] = Some([ installationID |-> installationID, name |-> name,
                                         org |-> org, repo |-> repo ]) ]
    /\ LET lookup == Call(d, "InstallationForID", FormatInt(installationID), installed)
           scoped == ScopedJITConfigCall(org, repo, name)
           fails(message, err) ==
               /\ outcome' = [ outcome EXCEPT ![d] =
                                 Some(apiResponse(StatusInternalServerError, T(message), Some(err))) ]
               /\ UNCHANGED jitConfig
       IN  IF ~installed
           THEN /\ calls' = Append(calls, lookup)
                /\ fails("failed to setup installation client", "installation lookup failed")
           ELSE IF ~BaseURLParses(server)
           THEN /\ calls' = Append(calls, lookup)
                /\ fails("failed to set github base URL", "missing protocol scheme")
           ELSE /\ calls' = calls \o << lookup, Call(d, scoped.svc, scoped.req, ok) >>
                /\ IF ~ok
                   THEN fails("failed to generate jitconfig", "github: request failed")
                   ELSE /\ jitConfig' = [ jitConfig EXCEPT ![d] = Some(token) ]
                        /\ UNCHANGED outcome
    /\ pc' = [ pc EXCEPT ![d] = "exchanged" ]
    /\ UNCHANGED << server, cmd, signing, builds, event, runnerID, resp, logs >>

\* Server.GenerateRepoJITConfig
GenerateRepoJITConfig(d, installationID, org, repo, name, installed, ok, token) ==
    generateJITConfig(d, installationID, org, Some(repo), name, installed, ok, token)

\* Server.GenerateOrgJITConfig
GenerateOrgJITConfig(d, installationID, org, name, installed, ok, token) ==
    generateJITConfig(d, installationID, org, None, name, installed, ok, token)

\* Cloud Build starts the step of the build it accepted for d
StartBuild(d) ==
    /\ IsNil(builds[d])
    /\ \E i \in 1..Len(calls) :
          /\ calls[i].delivery = d /\ calls[i].svc = "CreateBuild" /\ calls[i].ok
          /\ builds' = [ builds EXCEPT ![d] =
                           Some([ argv |-> CommandLine(calls[i].req), status |-> "WORKING" ]) ]
    /\ UNCHANGED << server, cmd, signing, pc, env, event, runnerID, jitConfig, outcome, resp,
                    calls, logs >>

\* the build of d comes to its end, with either result
FinishBuild(d, result) ==
    /\ ~IsNil(builds[d])
    /\ Deref(builds[d]).status = "WORKING"
    /\ builds' = [ builds EXCEPT ![d] =
                     Some([ argv |-> Deref(builds[d]).argv, status |-> result ]) ]
    /\ UNCHANGED << server, cmd, signing, pc, env, event, runnerID, jitConfig, outcome, resp,
                    calls, logs >>

\* the results a build can end with
BuildResults == { "SUCCESS", "FAILURE" }

\* what Cloud Build does with the build of d
RunBuild(d) ==
    \/ StartBuild(d)
    \/ \E result \in BuildResults : FinishBuild(d, result)

\* what a handler goroutine does once its request has arrived
Handle(d) ==
    \/ Validate(d)
    \/ Parse(d)
    \/ Route(d)
    \/ \E ok \in BOOLEAN : ResolveInstallation(d, ok)
    \/ \E ok \in BOOLEAN, token \in JITTokens : RequestJITConfig(d, ok, token)
    \/ \E ok \in BOOLEAN : SubmitBuild(d, ok)
    \/ Respond(d)

\* any client sends any request
AnyRequest(d) ==
    /\ pc[d] = "idle"
    /\ \E p \in Payloads, e \in EventTypes :
         \E s \in SignatureHeaders(p) :
            Receive(d, [ body |-> p, eventType |-> e, signature |-> s ])

\* cmd/webhook-tester sends one of its requests
TesterRequest(d) == \E r \in testCases : Receive(d, r)

Next ==
    \/ \E d \in Deliveries : AnyRequest(d)
    \/ \E d \in Deliveries : Validate(d)
    \/ \E d \in Deliveries : Parse(d)
    \/ \E d \in Deliveries : Route(d)
    \/ \E d \in Deliveries, ok \in BOOLEAN : ResolveInstallation(d, ok)
    \/ \E d \in Deliveries, ok \in BOOLEAN, token \in JITTokens : RequestJITConfig(d, ok, token)
    \/ \E d \in Deliveries, ok \in BOOLEAN : SubmitBuild(d, ok)
    \/ \E d \in Deliveries : Respond(d)
    \/ \E d \in Deliveries : StartBuild(d)
    \/ \E d \in Deliveries, result \in BuildResults : FinishBuild(d, result)

\* one request of any shape, served alone
Spec == Init /\ [][Next]_vars

NextConcurrent ==
    \/ \E d \in Deliveries : TesterRequest(d)
    \/ \E d \in Deliveries : Handle(d)
    \/ \E d \in Deliveries : RunBuild(d)

\* the tester's requests, served by concurrent handler goroutines
SpecConcurrent == InitConcurrent /\ [][NextConcurrent]_vars

\* the "queued" event of TestWebhookHandler: job 789 of run 456
testQueuedPayload ==
    [ Action |-> Some("queued"),
      Installation |-> Some([ ID |-> Some(TestInstallationID) ]),
      Org |-> Some([ Login |-> Some(TestOrgLogin) ]),
      Repo |-> Some([ Name |-> Some(TestRepoName) ]),
      WorkflowJob |-> Some([ ID |-> Some(TestJobID), Labels |-> << defaultRunnerLabel >>,
                             RunID |-> Some(TestRunID) ]),
      decodable |-> TRUE ]

\* the "queued" events of the tests and of the tester: two jobs of different ids
queuedPayloads == { testQueuedPayload, validPayload }

\* GitHub delivers one of the queued events, correctly signed
QueuedRequest(d) ==
    \E p \in queuedPayloads :
        Receive(d, [ body |-> p, eventType |-> "workflow_job",
                     signature |-> Some(generateSignature(p, serverGitHubWebhookSecret)) ])

NextQueued ==
    \/ \E d \in Deliveries : QueuedRequest(d)
    \/ \E d \in Deliveries : Handle(d)
    \/ \E d \in Deliveries : RunBuild(d)

\* queued events for runners, served by concurrent handler goroutines
SpecQueued == InitConcurrent /\ [][NextQueued]_vars

\* no handler is running: none has started, or each has returned or panicked
Quiescent == \A d \in Deliveries : pc[d] \in { "idle", "off", "responded", "panicked" }

\* Server.Close, once the HTTP server has stopped serving: s.kmc.Close() and,
\* when that returned nil, s.cbc.Close(); each fails or not
Close(kmcFails, cbcFails) ==
    /\ cmd.stage = "serving"
    /\ Quiescent
    /\ IF kmcFails
       THEN /\ server' = [ server EXCEPT !.kmc = Closed ]
            /\ cmd' = [ cmd EXCEPT
                          !.err = Wrap("failed to shutdown kms client connection",
                                       Errorf("kms: close failed")),
                          !.stage = "closed" ]
       ELSE /\ server' = [ server EXCEPT !.kmc = Closed, !.cbc = Closed ]
            /\ cmd' = [ cmd EXCEPT
                          !.err = IF cbcFails
                                  THEN Wrap("failed to shutdown cloud build client connection",
                                            Wrap("failed to close CloudBuild client",
                                                 Errorf("cloudbuild: close failed")))
                                  ELSE Nil,
                          !.stage = "closed" ]
    /\ UNCHANGED << signing, builds, pc, env, event, runnerID, jitConfig, outcome, resp,
                    calls, logs >>

\* the server serves queued events until it is shut down
NextShutdown ==
    \/ cmd.stage = "serving" /\ NextQueued
    \/ \E kmcFails \in BOOLEAN, cbcFails \in BOOLEAN : Close(kmcFails, cbcFails)

SpecShutdown == InitConcurrent /\ [][NextShutdown]_vars

\* the arguments the exchange is called with
ExchangeInstallationIDs == { TestInstallationID, TesterInstallationID }
ExchangeOrgs == { TestOrgLogin, "test-org" }
ExchangeRepos == { TestRepoName, "test-repo" }
ExchangeNames == { "GCP-" \o FormatInt(TestJobID), "GCP-" \o FormatInt(TesterJobID) }

NextExchange ==
    \/ \E d \in Deliveries, id \in ExchangeInstallationIDs, org \in ExchangeOrgs,
          repo \in ExchangeRepos, name \in ExchangeNames,
          installed \in BOOLEAN, ok \in BOOLEAN, token \in JITTokens :
            GenerateRepoJITConfig(d, id, org, repo, name, installed, ok, token)
    \/ \E d \in Deliveries, id \in ExchangeInstallationIDs, org \in ExchangeOrgs,
          name \in ExchangeNames,
          installed \in BOOLEAN, ok \in BOOLEAN, token \in JITTokens :
            GenerateOrgJITConfig(d, id, org, name, installed, ok, token)

\* the credential exchange, called for a repository or for an organization
SpecExchange == InitConcurrent /\ [][NextExchange]_vars

----------------------------------------------------------------------------
(* Vocabulary of the properties *)

Arrived(d) == ~IsNil(env[d])
Request(d) == Deref(env[d])
Body(d) == Request(d).body

\* the handler goroutine of d has ended: response written, or panic
Ended(d) == pc[d] \in {"responded", "panicked"}

\* the request carries the signature the sender computes with the server's secret
CorrectlySigned(d) ==
    /\ Arrived(d)
    /\ Request(d).signature = Some(generateSignature(Body(d), serverGitHubWebhookSecret))

\* a correctly signed workflow_job event whose body is a JSON object
SignedWorkflowJob(d) ==
    /\ CorrectlySigned(d)
    /\ Request(d).eventType = "workflow_job"
    /\ Body(d).decodable

\* the labels of the job; none when the payload has no workflow_job
JobLabels(d) == IF IsNil(Body(d).WorkflowJob) THEN <<>> ELSE Deref(Body(d).WorkflowJob).Labels

HasDefaultLabel(d) == \E i \in 1..Len(JobLabels(d)) : JobLabels(d)[i] = <<"self-hosted">>

InstallationIDPresent(d) ==
    ~IsNil(Body(d).Installation) /\ ~IsNil(Deref(Body(d).Installation).ID)
OrgLoginPresent(d) == ~IsNil(Body(d).Org) /\ ~IsNil(Deref(Body(d).Org).Login)
RepoNamePresent(d) == ~IsNil(Body(d).Repo) /\ ~IsNil(Deref(Body(d).Repo).Name)
IdentifiersPresent(d) == InstallationIDPresent(d) /\ OrgLoginPresent(d) /\ RepoNamePresent(d)

\* the job carries both its id and its run id
JobIDsPresent(d) ==
    /\ ~IsNil(Body(d).WorkflowJob)
    /\ ~IsNil(Deref(Body(d).WorkflowJob).ID)
    /\ ~IsNil(Deref(Body(d).WorkflowJob).RunID)

\* positions in calls of the calls delivery d made to svc
CallIndexes(d, svc) == { i \in 1..Len(calls) : calls[i].delivery = d /\ calls[i].svc = svc }
ExchangeCalls(d) == CallIndexes(d, "InstallationForID") \cup CallIndexes(d, "GenerateRepoJITConfig")
BuildCalls(d) == CallIndexes(d, "CreateBuild")
NoDownstreamCall(d) == ExchangeCalls(d) = {} /\ BuildCalls(d) = {}

Responded(d, code, body) ==
    /\ pc[d] = "responded"
    /\ resp[d] = Some([ Body |-> body, StatusCode |-> code ])

RespondedWithCode(d, codes) ==
    /\ pc[d] = "responded"
    /\ ~IsNil(resp[d])
    /\ Deref(resp[d]).StatusCode \in codes

----------------------------------------------------------------------------
(* Properties *)

\* C4: a correctly signed workflow_job event without an action field never makes
\* the handler panic and never causes a downstream call, and is answered 200
\* "no action taken for nil action type".
C4_NilActionIsNoOp ==
    \A d \in Deliveries :
        (SignedWorkflowJob(d) /\ IsNil(Body(d).Action)) =>
            /\ pc[d] # "panicked"
            /\ NoDownstreamCall(d)
            /\ pc[d] = "responded" => Responded(d, 200, "no action taken for nil action type")

C4_Witness ==
    \E d \in Deliveries :
        /\ SignedWorkflowJob(d) /\ IsNil(Body(d).Action)
        /\ IsNil(Body(d).WorkflowJob)
        /\ pc[d] = "responded"

\* C5: a correctly signed workflow_job event whose action is not "queued" is
\* answered 200 whatever else the payload has or lacks.
C5_NonQueuedAnswers200 ==
    \A d \in Deliveries :
        (SignedWorkflowJob(d) /\ Body(d).Action # Some("queued") /\ Ended(d)) =>
            RespondedWithCode(d, {200})

\* C5, what the handler does for such events: it answers 200 exactly when the
\* action is absent or the job carries id and run id; otherwise the goroutine
\* panics and no response is written.
C5_NonQueuedOutcome ==
    \A d \in Deliveries :
        (SignedWorkflowJob(d) /\ Body(d).Action # Some("queued") /\ Ended(d)) =>
            IF IsNil(Body(d).Action) \/ JobIDsPresent(d)
            THEN RespondedWithCode(d, {200})
            ELSE pc[d] = "panicked" /\ IsNil(resp[d])

\* C5: the tester's "non-queued event" request, {"action": "completed"}, has made
\* the handler panic.
C5_Witness ==
    \E d \in Deliveries :
        /\ SignedWorkflowJob(d) /\ Body(d) = nonQueuedPayload
        /\ pc[d] = "panicked" /\ IsNil(resp[d])

\* C1: for a correctly signed "queued" event that carries the default runner
\* label and installation id, org login and repo name, the handler has made, when
\* it ends, exactly one credential exchange (one installation lookup) and, once
\* the exchange has returned a token, exactly one build submission after it whose
\* _ENCODED_JIT_CONFIG substitution is that token.
C1_QueuedDispatchesOnce ==
    \A d \in Deliveries :
        ( /\ SignedWorkflowJob(d) /\ Body(d).Action = Some("queued")
          /\ HasDefaultLabel(d) /\ IdentifiersPresent(d)
          /\ Ended(d) ) =>
            /\ Cardinality(CallIndexes(d, "InstallationForID")) = 1
            /\ Cardinality(CallIndexes(d, "GenerateRepoJITConfig")) <= 1
            /\ ~IsNil(jitConfig[d]) =>
                 /\ Cardinality(BuildCalls(d)) = 1
                 /\ \A b \in BuildCalls(d) :
                       /\ \A x \in ExchangeCalls(d) : x < b
                       /\ calls[b].req.Substitutions._ENCODED_JIT_CONFIG = Deref(jitConfig[d])

\* C1 for the events whose job carries its id and run id: the handler does not
\* panic, makes one installation lookup and, once the exchange has returned a
\* token, exactly one build submission after it that carries that token.
C1_QueuedDispatchesOnceWithJobIDs ==
    \A d \in Deliveries :
        ( /\ SignedWorkflowJob(d) /\ Body(d).Action = Some("queued")
          /\ HasDefaultLabel(d) /\ IdentifiersPresent(d) /\ JobIDsPresent(d)
          /\ Ended(d) ) =>
            /\ pc[d] = "responded"
            /\ Cardinality(CallIndexes(d, "InstallationForID")) = 1
            /\ Cardinality(CallIndexes(d, "GenerateRepoJITConfig")) <= 1
            /\ ~IsNil(jitConfig[d]) =>
                 /\ Cardinality(BuildCalls(d)) = 1
                 /\ \A b \in BuildCalls(d) :
                       /\ \A x \in ExchangeCalls(d) : x < b
                       /\ calls[b].req.Substitutions._ENCODED_JIT_CONFIG = Deref(jitConfig[d])

\* C1: a "queued" event with the default label and all three identifiers, whose
\* job has no id, has made the handler panic before any call.
C1_Witness ==
    \E d \in Deliveries :
        /\ SignedWorkflowJob(d) /\ Body(d).Action = Some("queued")
        /\ HasDefaultLabel(d) /\ IdentifiersPresent(d)
        /\ IsNil(Deref(Body(d).WorkflowJob).ID)
        /\ pc[d] = "panicked" /\ NoDownstreamCall(d)

\* C2: a correctly signed "queued" event whose labels lack the default runner
\* label is answered 200 "no action taken for labels: <labels>", and no
\* credential exchange or build submission is made for it.
C2_OtherLabelsNoOp ==
    \A d \in Deliveries :
        (SignedWorkflowJob(d) /\ Body(d).Action = Some("queued") /\ ~HasDefaultLabel(d)) =>
            /\ NoDownstreamCall(d)
            /\ Ended(d) =>
                 Responded(d, 200, "no action taken for labels: " \o Str(SprintLabels(JobLabels(d))))

\* C2 for the events whose job carries its id and run id: 200 "no action taken
\* for labels: <labels>" and no downstream call.
C2_OtherLabelsNoOpWithJobIDs ==
    \A d \in Deliveries :
        ( /\ SignedWorkflowJob(d) /\ Body(d).Action = Some("queued") /\ ~HasDefaultLabel(d)
          /\ JobIDsPresent(d) ) =>
            /\ NoDownstreamCall(d)
            /\ Ended(d) =>
                 Responded(d, 200, "no action taken for labels: " \o Str(SprintLabels(JobLabels(d))))

\* C2: a "queued" event labelled only other-label, whose job has no run id, has
\* made the handler panic.
C2_Witness ==
    \E d \in Deliveries :
        /\ SignedWorkflowJob(d) /\ Body(d).Action = Some("queued")
        /\ JobLabels(d) = << T("other-label") >>
        /\ IsNil(Deref(Body(d).WorkflowJob).RunID)
        /\ pc[d] = "panicked"

\* C3: a correctly signed workflow_job event whose action is present and not
\* "queued" causes no credential exchange and no build submission, and ends as
\* a no-op success (a 200 response).
C3_NonQueuedNoOp ==
    \A d \in Deliveries :
        ( /\ SignedWorkflowJob(d)
          /\ ~IsNil(Body(d).Action) /\ Body(d).Action # Some("queued") ) =>
            /\ NoDownstreamCall(d)
            /\ Ended(d) => (RespondedWithCode(d, {200}) /\ IsNil(Deref(outcome[d]).Error))

\* C3, the part about downstream calls: such an event causes no credential
\* exchange and no build submission.
C3_NonQueuedNoDownstreamCall ==
    \A d \in Deliveries :
        ( /\ SignedWorkflowJob(d)
          /\ ~IsNil(Body(d).Action) /\ Body(d).Action # Some("queued") ) =>
            NoDownstreamCall(d)

\* C3: an "in_progress" event labelled self-hosted, whose job has no id, has
\* made the handler panic.
C3_Witness ==
    \E d \in Deliveries :
        /\ SignedWorkflowJob(d) /\ Body(d).Action = Some("in_progress")
        /\ HasDefaultLabel(d)
        /\ IsNil(Deref(Body(d).WorkflowJob).ID)
        /\ pc[d] = "panicked"

\* C6: a request whose signature header is not the payload's signature under the
\* server's secret (wrong, or missing) is never parsed, causes no downstream
\* call, and is answered 500 with the fixed body "failed to validate payload",
\* whatever the payload and whichever the fault.
C6_BadSignatureUniformResponse ==
    \A d \in Deliveries :
        (Arrived(d) /\ ~CorrectlySigned(d)) =>
            /\ pc[d] \in {"received", "returned", "responded"}
            /\ IsNil(event[d])
            /\ NoDownstreamCall(d)
            /\ pc[d] = "responded" => Responded(d, 500, "failed to validate payload")

C6_Witness ==
    \E d \in Deliveries :
        /\ Arrived(d) /\ IsNil(Request(d).signature)
        /\ Request(d).eventType = "workflow_job"
        /\ Body(d).Action = Some("queued") /\ HasDefaultLabel(d)
        /\ IdentifiersPresent(d) /\ JobIDsPresent(d)
        /\ Responded(d, 500, "failed to validate payload")

\* C7: a correctly signed request whose body is not decodable JSON is answered
\* with a 4xx status, and causes no downstream call.
C7_UndecodableIs4xx ==
    \A d \in Deliveries :
        (CorrectlySigned(d) /\ ~Body(d).decodable) =>
            /\ NoDownstreamCall(d)
            /\ Ended(d) => RespondedWithCode(d, 400..499)

\* C7 as amended: such a request is answered 500 with the generic body
\* "failed to parse webhook", and causes no downstream call.
C7_UndecodableIs500Generic ==
    \A d \in Deliveries :
        (CorrectlySigned(d) /\ ~Body(d).decodable) =>
            /\ NoDownstreamCall(d)
            /\ pc[d] # "panicked"
            /\ pc[d] = "responded" => Responded(d, 500, "failed to parse webhook")

C7_Witness ==
    \E d \in Deliveries :
        /\ CorrectlySigned(d) /\ ~Body(d).decodable
        /\ Request(d).eventType = "push"
        /\ pc[d] = "responded"

\* C8: a correctly signed workflow_job request with a truncated or otherwise
\* undecodable body is answered with HTTP 500.
C8_MalformedWorkflowJobIs500 ==
    \A d \in Deliveries :
        ( /\ CorrectlySigned(d) /\ Request(d).eventType = "workflow_job"
          /\ ~Body(d).decodable /\ Ended(d) ) =>
            RespondedWithCode(d, {500})

C8_Witness ==
    \E d \in Deliveries :
        /\ CorrectlySigned(d) /\ Request(d).eventType = "workflow_job"
        /\ ~Body(d).decodable
        /\ RespondedWithCode(d, {500})

\* C9: a correctly signed "queued" event that carries the default runner label
\* but lacks installation id, org login or repo name ends with a 4xx response,
\* not a 5xx one and not a panic, and causes no downstream call.
C9_MissingIdentifiersIs4xx ==
    \A d \in Deliveries :
        ( /\ SignedWorkflowJob(d) /\ Body(d).Action = Some("queued")
          /\ HasDefaultLabel(d) /\ ~IdentifiersPresent(d) ) =>
            /\ NoDownstreamCall(d)
            /\ Ended(d) => RespondedWithCode(d, 400..499)

\* C9 for the events whose job carries its id and run id: 400 "unexpected event
\* payload struture" and no downstream call.
C9_MissingIdentifiersIs400WithJobIDs ==
    \A d \in Deliveries :
        ( /\ SignedWorkflowJob(d) /\ Body(d).Action = Some("queued")
          /\ HasDefaultLabel(d) /\ ~IdentifiersPresent(d) /\ JobIDsPresent(d) ) =>
            /\ NoDownstreamCall(d)
            /\ Ended(d) => Responded(d, 400, "unexpected event payload struture")

\* C9: a "queued" event with the default label and no installation, whose job
\* has no id, has made the handler panic.
C9_Witness ==
    \E d \in Deliveries :
        /\ SignedWorkflowJob(d) /\ Body(d).Action = Some("queued")
        /\ HasDefaultLabel(d) /\ IsNil(Body(d).Installation)
        /\ IsNil(Deref(Body(d).WorkflowJob).ID)
        /\ pc[d] = "panicked"

----------------------------------------------------------------------------
(* Failures of the downstream calls *)

\* processRequest has returned from a credential exchange that gave no token
ExchangeFailed(d) ==
    /\ pc[d] \in {"returned", "responded"}
    /\ ExchangeCalls(d) # {}
    /\ IsNil(jitConfig[d])

\* a call delivery d made has failed
FailedCalls(d) == { i \in 1..Len(calls) : calls[i].delivery = d /\ ~calls[i].ok }

\* C11: when the credential exchange fails (installation lookup, base URL, or
\* JIT config request), processRequest returns a 5xx outcome, which is the
\* status written; no build is submitted and no step of the exchange has run
\* twice.
C11_ExchangeFailureIs5xx ==
    \A d \in Deliveries :
        ExchangeFailed(d) =>
            /\ Deref(outcome[d]).Code \in 500..599
            /\ BuildCalls(d) = {}
            /\ Cardinality(CallIndexes(d, "InstallationForID")) = 1
            /\ Cardinality(CallIndexes(d, "GenerateRepoJITConfig")) <= 1
            /\ pc[d] = "responded" => RespondedWithCode(d, 500..599)

C11_Witness ==
    \E d \in Deliveries :
        /\ ExchangeFailed(d)
        /\ CallIndexes(d, "GenerateRepoJITConfig") # {}
        /\ Responded(d, 500, "failed to generate jitconfig")

\* C12: when a downstream call of a request has failed, the response written
\* has status 500, the status of the outcome processRequest returned, and a
\* non-empty body.
C12_DownstreamFailureIs500 ==
    \A d \in Deliveries :
        (FailedCalls(d) # {} /\ pc[d] = "responded") =>
            /\ RespondedWithCode(d, {500})
            /\ Deref(resp[d]).StatusCode = Deref(outcome[d]).Code
            /\ Deref(resp[d]).Body # ""

C12_Witness ==
    \E d \in Deliveries :
        /\ \E i \in FailedCalls(d) : calls[i].svc = "CreateBuild"
        /\ Responded(d, 500, "failed to run build")

----------------------------------------------------------------------------
(* The life of one request *)

\* Handler goroutines are scheduled by the Go runtime and every outbound call
\* returns (with a result or an error): a handler that can take a step takes it.
Fairness == \A d \in Deliveries : WF_vars(Handle(d))

\* one request of any shape, served alone by a handler that keeps running
SpecFair == Spec /\ Fairness

\* the tester's requests, served concurrently by handlers that keep running
SpecConcurrentFair == SpecConcurrent /\ Fairness

\* a step never takes a request back to an earlier stage, and never writes a
\* second response
StagesAdvance ==
    \A d \in Deliveries :
        /\ Stage(pc'[d]) >= Stage(pc[d])
        /\ ~IsNil(resp[d]) => resp'[d] = resp[d]
        /\ ~IsNil(resp'[d]) <=> pc'[d] = "responded"

\* C13: every request that enters the handler moves through the stages in
\* order, never back, and eventually reaches Responded with exactly one
\* response written.
C13_EveryRequestResponds ==
    /\ [][StagesAdvance]_vars
    /\ \A d \in Deliveries : Arrived(d) ~> (pc[d] = "responded" /\ ~IsNil(resp[d]))

\* C13, what the handler does: the stages are passed in order, never back, at
\* most one response is written, and every request ends: Responded, or a panic
\* of the handler goroutine with no response.
C13_EveryRequestEnds ==
    /\ [][StagesAdvance]_vars
    /\ \A d \in Deliveries : Arrived(d) ~> Ended(d)

\* C13: a request that was received, verified and classified has made the
\* handler panic; no response is written for it.
C13_Witness ==
    \E d \in Deliveries :
        /\ Arrived(d) /\ ~IsNil(event[d])
        /\ Deref(event[d]).Action = Some("completed")
        /\ pc[d] = "panicked" /\ IsNil(resp[d])

----------------------------------------------------------------------------
(* Replayed deliveries *)

\* d carries a correctly signed "queued" event with the default label and the
\* three identifiers
Dispatchable(d) ==
    /\ SignedWorkflowJob(d) /\ Body(d).Action = Some("queued")
    /\ HasDefaultLabel(d) /\ IdentifiersPresent(d)

\* d made one installation lookup and, for the token it was given, one build
\* submission that carries that token
DispatchedOnce(d) ==
    /\ Cardinality(CallIndexes(d, "InstallationForID")) = 1
    /\ Cardinality(CallIndexes(d, "GenerateRepoJITConfig")) <= 1
    /\ ~IsNil(jitConfig[d]) =>
         /\ Cardinality(CallIndexes(d, "GenerateRepoJITConfig")) = 1
         /\ Cardinality(BuildCalls(d)) = 1
         /\ \A b \in BuildCalls(d) :
               calls[b].req = BuildRequest(server, Deref(jitConfig[d]))

\* C14: when two deliveries carry the identical dispatchable request, each of
\* them, once ended, has made its own credential exchange and its own build
\* submission, whatever the other did: neither is suppressed or altered.
C14_ReplayDispatchesAgain ==
    \A d1, d2 \in Deliveries :
        ( /\ d1 # d2 /\ Arrived(d1) /\ Arrived(d2) /\ env[d1] = env[d2]
          /\ Dispatchable(d1) /\ Ended(d1) /\ Ended(d2) ) =>
            DispatchedOnce(d1) /\ DispatchedOnce(d2)

C14_Witness ==
    \E d1, d2 \in Deliveries :
        /\ d1 # d2 /\ Arrived(d1) /\ Arrived(d2) /\ env[d1] = env[d2]
        /\ Dispatchable(d1)
        /\ Responded(d1, 200, "runner started") /\ Responded(d2, 200, "runner started")
        /\ jitConfig[d1] # jitConfig[d2]
        /\ Cardinality(ExchangeCalls(d1) \cup ExchangeCalls(d2)) = 4
        /\ Cardinality(BuildCalls(d1) \cup BuildCalls(d2)) = 2

----------------------------------------------------------------------------
(* The success response *)

\* the build service accepted a build submitted for delivery d
BuildAccepted(d) == \E b \in BuildCalls(d) : calls[b].ok

\* C15: a request is answered 200 "runner started" exactly when the build
\* service accepted the build submitted for it; a request whose submission
\* failed or was not made gets another response.
C15_RunnerStartedIffBuildAccepted ==
    \A d \in Deliveries :
        pc[d] = "responded" =>
            (Responded(d, 200, "runner started") <=> BuildAccepted(d))

C15_Witness ==
    \E d \in Deliveries :
        /\ BuildAccepted(d)
        /\ Responded(d, 200, "runner started")
        /\ server.runnerWorkerPoolID # ""

----------------------------------------------------------------------------
(* The response body *)

\* the messages of processRequest that are fixed texts
FixedMessages ==
    { T("failed to validate payload"), T("failed to parse webhook"),
      T("no action taken for nil action type"), T("unexpected event payload struture"),
      T("failed to setup installation client"), T("failed to set github base URL"),
      T("failed to generate jitconfig"), T("failed to run build"), runnerStartedMsg,
      T("workflow job in progress event logged"), T("workflow job completed event logged"),
      T("unexpected event type dispatched from webhook") }

\* the messages of processRequest that are completed from the payload of d
CompletedMessages(d) ==
    { T("no action taken for labels: ") \o SprintLabels(JobLabels(d)) }
    \cup ( IF IsNil(Body(d).Action) THEN {}
           ELSE { T("no action taken for action type: ") \o SprintQuoted(Deref(Body(d).Action)) } )

\* C16: the body of every response is the HTML escape of one of the handler's
\* messages (a fixed text, or one completed with the payload's labels or
\* action): it holds none of the five characters html.EscapeString rewrites,
\* it is not and does not carry the text of the error processRequest returned,
\* and it does not carry the JIT credential.
C16_BodyIsEscapedFixedMessage ==
    \A d \in Deliveries :
        pc[d] = "responded" =>
            LET r == Deref(outcome[d])
                escaped == EscapeString(r.Message)
            IN  /\ r.Message \in FixedMessages \cup CompletedMessages(d)
                /\ Deref(resp[d]).Body = Str(escaped)
                /\ \A i \in 1..Len(escaped) :
                      /\ escaped[i] \notin SpecialChars
                      /\ ~IsNil(r.Error) => escaped[i] # Deref(r.Error)
                      /\ ~IsNil(jitConfig[d]) => escaped[i] # Deref(jitConfig[d])
                /\ ~IsNil(r.Error) => Deref(resp[d]).Body # Str(r.Message \o <<": ", Deref(r.Error)>>)

C16_Witness ==
    \E d \in Deliveries :
        /\ SignedWorkflowJob(d) /\ Body(d).Action = Some("waiting")
        /\ Responded(d, 200, "no action taken for action type: &#34;waiting&#34;")

----------------------------------------------------------------------------
(* The runner image of the submitted build *)

\* the builds submitted for d, as sent to Cloud Build
SubmittedBuilds(d) == { calls[b].req : b \in BuildCalls(d) }

\* once the exchange has handed d a token and the handler has ended, a build
\* was submitted for d
BuildSubmittedForToken(d) ==
    (~IsNil(jitConfig[d]) /\ Ended(d)) => BuildCalls(d) # {}

\* C17: for a dispatchable "queued" event whose labels are the default runner
\* label followed by one additional label, a build is submitted once the
\* exchange has returned a token, and the _IMAGE_TAG substitution of the build
\* is that additional label.
C17_AdditionalLabelIsImageTag ==
    \A d \in Deliveries :
        ( /\ Dispatchable(d) /\ Len(JobLabels(d)) = 2
          /\ JobLabels(d)[1] = defaultRunnerLabel /\ JobLabels(d)[2] # defaultRunnerLabel ) =>
            /\ BuildSubmittedForToken(d)
            /\ \A b \in SubmittedBuilds(d) : b.Substitutions._IMAGE_TAG = Str(JobLabels(d)[2])

\* C17: the labels ["self-hosted", "pr-123-abc"] of the "Dynamic Label" test
\* case have led to a build whose _IMAGE_TAG is the configured tag
C17_Witness ==
    \E d \in Deliveries :
        /\ Dispatchable(d)
        /\ JobLabels(d) = << T("self-hosted"), T("pr-123-abc") >>
        /\ Responded(d, 200, "runner started")
        /\ \E b \in SubmittedBuilds(d) : b.Substitutions._IMAGE_TAG = "latest"

----------------------------------------------------------------------------
(* Starting the server: WebhookServerCommand.RunUnstarted *)

\* fmt's %q of the one-element argument lists of ArgLists
SprintArgs(args) == "[\"" \o args[1] \o "\"]"

\* RunUnstarted(ctx, args), whose NewServer or serving.New fails at failure
RunUnstarted(args, failure) ==
    /\ cmd.stage = "unstarted"
    /\ LET cfg == ToFlags(cmd.environ)
           err == IF Len(args) > 0
                  THEN Errorf("unexpected arguments: " \o SprintArgs(args))
                  ELSE IF ConfigValidate(cfg) # Nil
                       THEN Wrap("invalid configuration", ConfigValidate(cfg))
                       ELSE StartError(failure)
       IN  /\ cmd' = Ran(cmd.environ, args, err)
           /\ server' = IF err = Nil THEN NewServer(cfg) ELSE server
    /\ UNCHANGED << signing, builds, pc, env, event, runnerID, jitConfig, outcome, resp, calls, logs >>

\* GET /healthz on the server RunUnstarted returned
HandleHealthz ==
    /\ cmd.stage = "serving"
    /\ cmd.healthz = 0
    /\ cmd' = [ cmd EXCEPT !.healthz = StatusOK ]
    /\ UNCHANGED << server, signing, builds, pc, env, event, runnerID, jitConfig, outcome,
                    resp, calls, logs >>

\* a command about to run, in any environment
InitStartup ==
    /\ server = NoServer
    /\ cmd \in { Unstarted(environ) : environ \in Environments }
    /\ signing = NoSigning
    /\ pc = [ d \in Deliveries |-> "off" ]
    /\ NoneArrived

NextStartup ==
    \/ \E args \in ArgLists, failure \in Failures : RunUnstarted(args, failure)
    \/ HandleHealthz

SpecStartup == InitStartup /\ [][NextStartup]_vars

\* the first variable of order that environ leaves unset, "" when all are set
FirstMissing(order, environ) ==
    LET missing == { i \in 1..Len(order) : order[i] \notin environ }
    IN  IF missing = {} THEN ""
        ELSE order[CHOOSE i \in missing : \A j \in missing : i <= j]

\* RunUnstarted got as far as validating the configuration
ValidationRan == cmd.stage # "unstarted" /\ cmd.args = <<>>

\* the configuration was rejected for name, and no server was created
RejectedFor(name) ==
    /\ cmd.stage = "failed"
    /\ cmd.err = Wrap("invalid configuration", Errorf(name \o " is required"))
    /\ server = NoServer

\* the configuration was accepted; the server, if its construction succeeded,
\* answers /healthz with 200
AcceptedAndHealthy ==
    /\ cmd.err = Nil \/ Head(cmd.err) # "invalid configuration"
    /\ cmd.stage = "serving" => server # NoServer /\ cmd.healthz \in {0, StatusOK}

\* the required variables in the order the claim C19 names them
NamedRequired ==
    << "BUILD_LOCATION", "GITHUB_APP_ID", "WEBHOOK_KEY_MOUNT_PATH", "WEBHOOK_KEY_NAME",
       "KMS_APP_PRIVATE_KEY_ID", "PROJECT_ID", "RUNNER_REPOSITORY_ID" >>

\* the required variables in the order Config.Validate checks their fields
CheckedRequired ==
    << "BUILD_LOCATION", "GITHUB_APP_ID", "WEBHOOK_KEY_MOUNT_PATH", "WEBHOOK_KEY_NAME",
       "KMS_APP_PRIVATE_KEY_ID", "RUNNER_PROJECT_ID", "RUNNER_REPOSITORY_ID",
       "RUNNER_SERVICE_ACCOUNT" >>

\* C19: validation rejects a configuration that lacks one of BUILD_LOCATION,
\* GITHUB_APP_ID, WEBHOOK_KEY_MOUNT_PATH, WEBHOOK_KEY_NAME, KMS_APP_PRIVATE_KEY_ID,
\* PROJECT_ID, RUNNER_REPOSITORY_ID, reporting the first missing one as
\* "<NAME> is required" and creating no server; a configuration with all seven
\* set is accepted and yields a server that answers /healthz with 200.
C19_ValidationReportsFirstMissing ==
    ValidationRan =>
        LET name == FirstMissing(NamedRequired, cmd.environ)
        IN  IF name # "" THEN RejectedFor(name) ELSE AcceptedAndHealthy

\* C19, the case of the claim: the seven named variables are set, nothing
\* else is, and RunUnstarted has returned
C19_Witness ==
    /\ ValidationRan
    /\ cmd.environ = { NamedRequired[i] : i \in 1..Len(NamedRequired) }
    /\ cmd.err = Wrap("invalid configuration", Errorf("RUNNER_PROJECT_ID is required"))

\* C19 as the code has it: the same holds of the eight variables Config.Validate
\* checks, with RUNNER_PROJECT_ID in the sixth place and RUNNER_SERVICE_ACCOUNT last
C19_ValidationReportsFirstUnsetField ==
    ValidationRan =>
        LET name == FirstMissing(CheckedRequired, cmd.environ)
        IN  IF name # "" THEN RejectedFor(name) ELSE AcceptedAndHealthy

\* C19: a server started from a complete environment has answered /healthz
C19_HealthyWitness ==
    /\ cmd.environ = RequiredEnv
    /\ cmd.stage = "serving"
    /\ cmd.healthz = StatusOK

----------------------------------------------------------------------------
(* Signing a payload, changing a byte on the wire, verifying *)

\* the bytes a changed signature byte can become: the hex digits of either
\* case, the separator, and letters that are no hex digits
SignatureBytes ==
    { hextable[i] : i \in 1..16 } \cup { "A", "B", "C", "D", "E", "F", "=", "g", "G", "s" }

\* generateSignature(payload, secret) of the tester
Sign ==
    /\ signing.stage = "unsigned"
    /\ signing' = [ signing EXCEPT
                      !.signature = generateSignatureBytes(signing.payload, signing.secret),
                      !.stage = "signed" ]
    /\ UNCHANGED << server, cmd, builds, pc, env, event, runnerID, jitConfig, outcome, resp,
                    calls, logs >>

\* byte i of the payload becomes b
ChangePayload(i, b) ==
    /\ signing.stage = "signed"
    /\ signing.payload[i] # b
    /\ signing' = [ signing EXCEPT !.at = i, !.changed = "payload",
                                   !.payload = [ signing.payload EXCEPT ![i] = b ],
                                   !.stage = "changed", !.was = signing.payload[i] ]
    /\ UNCHANGED << server, cmd, builds, pc, env, event, runnerID, jitConfig, outcome, resp,
                    calls, logs >>

\* byte i of the signature becomes b
ChangeSignature(i, b) ==
    /\ signing.stage = "signed"
    /\ signing.signature[i] # b
    /\ signing' = [ signing EXCEPT !.at = i, !.changed = "signature",
                                   !.signature = [ signing.signature EXCEPT ![i] = b ],
                                   !.stage = "changed", !.was = signing.signature[i] ]
    /\ UNCHANGED << server, cmd, builds, pc, env, event, runnerID, jitConfig, outcome, resp,
                    calls, logs >>

\* github.ValidateSignature(signature, payload, secret) of the verifier
Verify ==
    /\ signing.stage \in { "signed", "changed" }
    /\ signing' = [ signing EXCEPT
                      !.stage = "verified",
                      !.verdict = ValidateSignatureBytes(signing.signature, signing.payload,
                                                         signing.secret) ]
    /\ UNCHANGED << server, cmd, builds, pc, env, event, runnerID, jitConfig, outcome, resp,
                    calls, logs >>

\* any payload and any secret, unsigned
InitSigning ==
    /\ server = NoServer
    /\ cmd = Unstarted({})
    /\ signing \in { Unsigned(payload, secret) :
                        payload \in SignedPayloads, secret \in SigningSecrets }
    /\ pc = [ d \in Deliveries |-> "off" ]
    /\ NoneArrived

NextSigning ==
    \/ Sign
    \/ \E i \in 1..Len(signing.payload), b \in PayloadBytes : ChangePayload(i, b)
    \/ \E i \in 1..Len(signing.signature), b \in SignatureBytes : ChangeSignature(i, b)
    \/ Verify

SpecSigning == InitSigning /\ [][NextSigning]_vars

Verified == signing.stage = "verified"
Accepted == Verified /\ IsNil(signing.verdict)
Rejected == Verified /\ ~IsNil(signing.verdict)

\* the signature TestGenerateSignature expects for {"foo":"bar"} and test-secret
expectedSignature == "sha256=9b1abf7d901bda91325d00f6b397fb0dc257937939b27d4dc67848ab9e08f6c0"

\* the signature produced is "sha256=" followed by 64 hex digits, and the one
\* TestGenerateSignature expects for its payload and secret
WellFormedSignature ==
    (signing.stage # "unsigned" /\ signing.changed = "none") =>
        /\ Len(signing.signature) = 71
        /\ Str(SubSeq(signing.signature, 1, 7)) = "sha256="
        /\ (signing.payload = TestPayload /\ signing.secret = "test-secret")
              => Str(signing.signature) = expectedSignature

\* a hex letter of the digest was written in its other case
LetterCaseChanged ==
    /\ signing.changed = "signature"
    /\ signing.at > 7
    /\ << signing.was, signing.signature[signing.at] >> \in
          { << "a", "A" >>, << "b", "B" >>, << "c", "C" >>, << "d", "D" >>,
            << "e", "E" >>, << "f", "F" >> }

\* C20: the signature produced for (P, S) is accepted by the verifier with
\* secret S, and any single-byte change to P or to the signature makes the
\* verifier reject.
C20_ChangedByteIsRejected ==
    Verified => IF signing.changed = "none" THEN Accepted ELSE Rejected

\* C20, amended: the signature produced for (P, S) is "sha256=" and the hex
\* HMAC-SHA256 and is accepted with secret S; a single-byte change to P is
\* rejected; a single-byte change to the signature is rejected unless it writes
\* a hex letter of the digest in upper case, which the verifier accepts.
C20_ChangedByteIsRejectedButLetterCase ==
    /\ WellFormedSignature
    /\ Verified =>
          CASE signing.changed = "none"      -> Accepted
            [] signing.changed = "payload"   -> Rejected
            [] signing.changed = "signature" -> (Accepted <=> LetterCaseChanged)

\* C20: a hex letter of the signature was written in upper case, and the
\* verifier accepted the signature
C20_Witness ==
    /\ Accepted
    /\ LetterCaseChanged
    /\ signing.payload = TestPayload

\* C20: changed payloads and changed signatures that were rejected
C20_RejectedWitness ==
    /\ Rejected
    /\ signing.changed = "payload"
    /\ signing.at = Len(signing.payload)

----------------------------------------------------------------------------
(* The worker pool of the submitted build *)

\* C21: if a worker-pool id is configured, every submitted build names that id
\* in its pool option; if none is configured, no submitted build has a pool
\* option.
C21_BuildPinnedToConfiguredPool ==
    \A d \in Deliveries : \A b \in SubmittedBuilds(d) :
        IF server.runnerWorkerPoolID # ""
        THEN b.Pool = Some(server.runnerWorkerPoolID)
        ELSE IsNil(b.Pool)

\* C21: a build was submitted by a server with a worker pool configured
C21_Witness ==
    /\ server.runnerWorkerPoolID # ""
    /\ \E d \in Deliveries : \E b \in SubmittedBuilds(d) : ~IsNil(b.Pool)

\* C21: a build was submitted by a server without a worker pool
C21_WitnessNoPool ==
    /\ server.runnerWorkerPoolID = ""
    /\ \E d \in Deliveries : \E b \in SubmittedBuilds(d) : IsNil(b.Pool)

----------------------------------------------------------------------------
(* The JIT credential in logs and requests *)

\* strings.Contains(s, substr)
Contains(s, substr) ==
    \E i \in 1..(Len(s) - Len(substr) + 1) : SubSeq(s, i, i + Len(substr) - 1) = substr

\* the credentials the exchange has handed out so far
IssuedCredentials == { Deref(jitConfig[d]) : d \in { o \in Deliveries : ~IsNil(jitConfig[o]) } }

\* the strings of a log entry: its message and the values of its fields; the
\* "payload" field of the unhandled-event entry holds the request body
EntryStrings(e) ==
    { e.msg } \cup { e.fields[k][2] : k \in { j \in 1..Len(e.fields) : e.fields[j][1] # "payload" } }

\* the strings of a JIT config request
JITRequestStrings(req) ==
    { req.Name, req.Org, req.Repo } \cup { Str(req.Labels[k]) : k \in 1..Len(req.Labels) }

\* the strings of a build request other than its _ENCODED_JIT_CONFIG substitution
BuildRequestOtherStrings(req) ==
    { req.Logging, req.Parent, req.ProjectId, req.ServiceAccount, req.Step.Entrypoint,
      req.Step.Id, req.Step.Name, req.Substitutions._IMAGE_NAME,
      req.Substitutions._IMAGE_TAG, req.Substitutions._REPOSITORY_ID }
    \cup { req.Step.Args[k] : k \in 1..Len(req.Step.Args) }
    \cup (IF IsNil(req.Pool) THEN {} ELSE { Deref(req.Pool) })

\* the strings of an outbound call in which a credential has no place
CallStrings(c) ==
    CASE c.svc = "InstallationForID"     -> { c.req }
      [] c.svc = "GenerateRepoJITConfig" -> JITRequestStrings(c.req)
      [] c.svc = "CreateBuild"           -> BuildRequestOtherStrings(c.req)

\* C22: no log entry written while processing any request contains a JIT
\* credential the exchange has handed out; outside the _ENCODED_JIT_CONFIG
\* substitution of a build request no outbound request contains one either,
\* and every build request carries in that substitution the credential of its
\* own request.
C22_CredentialNeverLogged ==
    /\ \A tok \in IssuedCredentials :
          /\ \A i \in 1..Len(logs) : \A s \in EntryStrings(logs[i]) : ~Contains(s, tok)
          /\ \A i \in 1..Len(calls) : \A s \in CallStrings(calls[i]) : ~Contains(s, tok)
    /\ \A d \in Deliveries : \A b \in SubmittedBuilds(d) :
          b.Substitutions._ENCODED_JIT_CONFIG \in IssuedCredentials

\* C22: a request that was handed a credential has ended on the error path of
\* the build submission, with its error entries written
C22_Witness ==
    \E d \in Deliveries :
        /\ ~IsNil(jitConfig[d])
        /\ Responded(d, 500, "failed to run build")
        /\ \E i \in 1..Len(logs) : logs[i].delivery = d /\ logs[i].msg = "error processing request"

\* C22: a request that was handed a credential has ended with "runner started"
C22_WitnessStarted ==
    \E d \in Deliveries :
        /\ ~IsNil(jitConfig[d])
        /\ Responded(d, 200, "runner started")
        /\ \E i \in 1..Len(logs) : logs[i].delivery = d /\ logs[i].msg = "runner started"

----------------------------------------------------------------------------
(* The JIT credential on the command line of the build step *)

\* the command line of the build step of d, once Cloud Build has started it
StepCommandLine(d) == Deref(builds[d]).argv

\* C23: in every submitted build the JIT credential is never part of a
\* command-line argument of the build step: neither of the args as submitted
\* nor of the command line the step is started with.
C23_CredentialNotOnCommandLine ==
    \A d \in Deliveries :
        /\ \A b \in SubmittedBuilds(d) : \A k \in 1..Len(b.Step.Args) :
              ~Contains(b.Step.Args[k], b.Substitutions._ENCODED_JIT_CONFIG)
        /\ ~IsNil(builds[d]) =>
              \A k \in 1..Len(StepCommandLine(d)) :
                  ~Contains(StepCommandLine(d)[k], Deref(jitConfig[d]))

\* C23: the step of a build runs, and the script bash is given holds the
\* credential "Hello" behind docker run's -e ENCODED_JIT_CONFIG=
C23_Witness ==
    \E d \in Deliveries :
        /\ ~IsNil(builds[d])
        /\ jitConfig[d] = Some("Hello")
        /\ Contains(StepCommandLine(d)[3], "-e ENCODED_JIT_CONFIG=Hello ")

\* C23 as the code has it: the args as submitted name the credential only by
\* its substitution key, and the step is started with the credential written
\* into the script of bash -c, where docker run gets it as -e ENCODED_JIT_CONFIG=
C23_CredentialSubstitutedIntoScript ==
    \A d \in Deliveries :
        /\ \A b \in SubmittedBuilds(d) :
              /\ Contains(b.Step.Args[2], "-e ENCODED_JIT_CONFIG=$_ENCODED_JIT_CONFIG ")
              /\ \A k \in 1..Len(b.Step.Args) :
                    ~Contains(b.Step.Args[k], b.Substitutions._ENCODED_JIT_CONFIG)
        /\ ~IsNil(builds[d]) =>
              /\ StepCommandLine(d)[1] = "bash" /\ StepCommandLine(d)[2] = "-c"
              /\ Contains(StepCommandLine(d)[3],
                          "-e ENCODED_JIT_CONFIG=" \o Deref(jitConfig[d]) \o " ")
              /\ ~Contains(StepCommandLine(d)[3], "$_")

----------------------------------------------------------------------------
(* The runner identity *)

\* the id of the job that delivery d is about
JobID(d) == Deref(Deref(Body(d).WorkflowJob).ID)

\* the JIT config requests made for d
JITConfigRequests(d) == { calls[i].req : i \in CallIndexes(d, "GenerateRepoJITConfig") }

\* the values logged as runner_id for d
LoggedRunnerIDs(d) ==
    UNION { { logs[i].fields[k][2] :
                k \in { j \in 1..Len(logs[i].fields) : logs[i].fields[j][1] = "runner_id" } } :
            i \in { j \in 1..Len(logs) : logs[j].delivery = d } }

Exchanged == { d \in Deliveries : pc[d] = "exchanged" }
ExchangeArgs(d) == Deref(env[d])

\* the scoped requests an exchange made: repository- or organization-scoped
ScopedCalls(d) == CallIndexes(d, "GenerateRepoJITConfig") \cup CallIndexes(d, "GenerateOrgJITConfig")

\* the exchange got as far as its scoped request
ReachedScopedRequest(d) ==
    /\ \E i \in CallIndexes(d, "InstallationForID") : calls[i].ok
    /\ BaseURLParses(server)

\* every scoped request of d has the fixed label set and runner group 1, and
\* is scoped by whether d was given a repo name
FixedFieldsAndScope(d) ==
    \A i \in ScopedCalls(d) :
        /\ calls[i].req.Labels = << defaultRunnerLabel, T("Linux"), T("X64") >>
        /\ calls[i].req.RunnerGroupID = 1
        /\ calls[i].req.Org = ExchangeArgs(d).org
        /\ calls[i].req.Name = ExchangeArgs(d).name
        /\ IF IsNil(ExchangeArgs(d).repo)
           THEN /\ calls[i].svc = "GenerateOrgJITConfig"
                /\ "Repo" \notin DOMAIN calls[i].req
           ELSE /\ calls[i].svc = "GenerateRepoJITConfig"
                /\ calls[i].req.Repo = Deref(ExchangeArgs(d).repo)

\* C25: every JIT config request carries the labels {"self-hosted", "Linux",
\* "X64"} and runner group 1, is scoped to the repository when a repo name is
\* given and to the organization when none is, and every exchange makes
\* exactly one of the two scoped requests.
C25_ExactlyOneScopedRequest ==
    \A d \in Exchanged :
        /\ FixedFieldsAndScope(d)
        /\ Cardinality(ScopedCalls(d)) = 1

\* C25, amended: the fixed fields and the scope as above; an exchange never
\* makes both scoped requests nor one twice, and makes one exactly when the
\* installation client was set up and the base URL parsed.
C25_AtMostOneScopedRequest ==
    \A d \in Exchanged :
        /\ FixedFieldsAndScope(d)
        /\ Cardinality(ScopedCalls(d)) <= 1
        /\ Cardinality(ScopedCalls(d)) = 1 <=> ReachedScopedRequest(d)

\* one exchange was given a repo name and made the repository-scoped request,
\* another was given none and made the organization-scoped request
C25_Witness ==
    \E d1, d2 \in Exchanged :
        /\ ~IsNil(ExchangeArgs(d1).repo)
        /\ CallIndexes(d1, "GenerateRepoJITConfig") # {}
        /\ IsNil(ExchangeArgs(d2).repo)
        /\ CallIndexes(d2, "GenerateOrgJITConfig") # {}

(***************************************************************************)
(* Graceful shutdown: the two long-lived clients                           *)
(***************************************************************************)

\* Server.Close has returned
CloseReturned == cmd.stage = "closed"

\* C26: after Server.Close returns, the key-management client and the
\* build-service client have both been closed, whatever either close call
\* returned.
C26_CloseClosesBothClients ==
    CloseReturned => server.kmc = Closed /\ server.cbc = Closed

\* the Close the code has: after it returns the key-management client has
\* been closed, and the build-service client has been closed exactly when the
\* key-management client's Close returned nil
C26_CloseStopsAtFirstError ==
    CloseReturned =>
        /\ server.kmc = Closed
        /\ server.cbc = Closed <=>
               (cmd.err = Nil \/ Head(cmd.err) # "failed to shutdown kms client connection")

\* Close returned the key-management client's error, after requests were served
C26_Witness ==
    /\ CloseReturned
    /\ cmd.err # Nil
    /\ Head(cmd.err) = "failed to shutdown kms client connection"
    /\ \E d \in Deliveries : pc[d] = "responded"

(***************************************************************************)
(* Requests handled concurrently                                           *)
(***************************************************************************)

\* the downstream calls of d in the order d made them: what was called, with
\* what request
OwnRequests(d) ==
    LET own == SelectSeq(calls, LAMBDA c : c.delivery = d)
    IN  [ i \in 1..Len(own) |-> << own[i].svc, own[i].req >> ]

\* the results of the downstream calls of d, in order, and the credential its
\* exchange returned
OwnResults(d) ==
    LET own == SelectSeq(calls, LAMBDA c : c.delivery = d)
    IN  << [ i \in 1..Len(own) |-> own[i].ok ], jitConfig[d] >>

\* the log entries written for d, in order
OwnEntries(d) ==
    LET own == SelectSeq(logs, LAMBDA e : e.delivery = d)
    IN  [ i \in 1..Len(own) |-> << own[i].level, own[i].msg, own[i].fields >> ]

\* two requests with the same payload whose downstream calls had the same
\* results were answered alike and made the same downstream calls
DeterminedByOwnInputs ==
    \A d1, d2 \in Deliveries :
        (/\ pc[d1] = "responded" /\ pc[d2] = "responded"
         /\ env[d1] = env[d2]
         /\ OwnResults(d1) = OwnResults(d2))
        => /\ resp[d1] = resp[d2]
           /\ OwnRequests(d1) = OwnRequests(d2)
           /\ OwnEntries(d1) = OwnEntries(d2)

\* every build submitted carries the credential its own request's exchange
\* returned
BuildCarriesOwnCredential ==
    \A i \in 1..Len(calls) :
        calls[i].svc = "CreateBuild" =>
            /\ ~IsNil(jitConfig[calls[i].delivery])
            /\ calls[i].req.Substitutions._ENCODED_JIT_CONFIG = Deref(jitConfig[calls[i].delivery])

\* C27: under every interleaving of concurrent requests, a request's response
\* and downstream calls are determined by its own payload and the results of
\* its own downstream calls, the build submitted for a request carries the
\* credential of that request's own exchange, and no step of request
\* processing changes the server's configuration or client handles.
C27_RequestsAreIndependent ==
    /\ [](DeterminedByOwnInputs /\ BuildCarriesOwnCredential)
    /\ [][server' = server]_vars

\* two requests handled at once, their downstream calls interleaved, were
\* issued different credentials and each had its build accepted
C27_Witness ==
    \E d1, d2 \in Deliveries :
        /\ d1 # d2
        /\ pc[d1] = "responded" /\ pc[d2] = "responded"
        /\ ~IsNil(jitConfig[d1]) /\ ~IsNil(jitConfig[d2])
        /\ jitConfig[d1] # jitConfig[d2]
        /\ \E i \in BuildCalls(d1) : calls[i].ok
        /\ \E i \in BuildCalls(d2) : calls[i].ok
        /\ \E i, j, k \in 1..Len(calls) :
              /\ i < j /\ j < k
              /\ calls[i].delivery = d1 /\ calls[j].delivery = d2 /\ calls[k].delivery = d1

\* two requests with the same payload and the same downstream results
C27_WitnessSameInputs ==
    \E d1, d2 \in Deliveries :
        /\ d1 # d2
        /\ pc[d1] = "responded" /\ pc[d2] = "responded"
        /\ env[d1] = env[d2]
        /\ OwnResults(d1) = OwnResults(d2)
        /\ BuildCalls(d1) # {}

(***************************************************************************)
(* The response and the build it announced                                 *)
(***************************************************************************)

\* the build of d has run to its end
BuildFinished(d) == ~IsNil(builds[d]) /\ Deref(builds[d]).status \in BuildResults

\* once processRequest has returned, the handler can write the response,
\* whatever state the build is in
RespondsWithoutWaiting ==
    \A d \in Deliveries : pc[d] = "returned" => ENABLED Respond(d)

\* the response to a request whose build was accepted is the 200 that
\* announces the runner, whether the build is pending, running, done or failed
AcceptedIsAnnounced ==
    \A d \in Deliveries :
        (pc[d] = "responded" /\ BuildAccepted(d)) =>
            Responded(d, StatusOK, Str(EscapeString(runnerStartedMsg)))

\* a step of a build leaves every outcome and every response as it was
BuildLeavesResponse == builds' # builds => (resp' = resp /\ outcome' = outcome /\ pc' = pc)

\* C28: once the build service has accepted the submission the handler
\* responds without waiting for the build to run or finish, and the build's
\* success or failure never changes the response.
C28_ResponseIndependentOfBuild ==
    /\ [](RespondsWithoutWaiting /\ AcceptedIsAnnounced)
    /\ [][BuildLeavesResponse]_vars

\* the response was written while the accepted build had not started
C28_Witness ==
    \E d \in Deliveries :
        /\ Responded(d, StatusOK, Str(EscapeString(runnerStartedMsg)))
        /\ BuildAccepted(d)
        /\ IsNil(builds[d])

\* the response announced a runner whose build then failed
C28_WitnessFailed ==
    \E d \in Deliveries :
        /\ Responded(d, StatusOK, Str(EscapeString(runnerStartedMsg)))
        /\ BuildFinished(d)
        /\ Deref(builds[d]).status = "FAILURE"

\* the build finished before the handler wrote the response
C28_WitnessFinishedFirst ==
    \E d \in Deliveries :
        /\ pc[d] = "returned"
        /\ BuildFinished(d)

(***************************************************************************)
(* The order of the label check and the identifying-field check            *)
(***************************************************************************)

\* a correctly signed "queued" event that lacks the default runner label and
\* also lacks installation id, org login or repo name
UnlabelledAndUnidentified(d) ==
    /\ SignedWorkflowJob(d) /\ Body(d).Action = Some("queued")
    /\ ~HasDefaultLabel(d) /\ ~IdentifiersPresent(d)

\* the malformed-payload entry of the identifying-field check was written for d
FieldCheckLogged(d) ==
    \E i \in 1..Len(logs) :
        /\ logs[i].delivery = d
        /\ logs[i].msg = "cannot generate JIT config due to missing event data"

\* C29: a "queued" event that lacks the default runner label and also lacks
\* installation id, org login or repo name gets the 200 no-op outcome for its
\* labels, not the 400 malformed-payload outcome: the label check comes first.
C29_LabelCheckBeforeFieldCheck ==
    \A d \in Deliveries :
        UnlabelledAndUnidentified(d) =>
            /\ ~FieldCheckLogged(d)
            /\ Ended(d) =>
                 Responded(d, 200, "no action taken for labels: " \o Str(SprintLabels(JobLabels(d))))

\* C29 for the events whose job carries its id and run id: the 200 no-op
\* outcome for the labels, never the malformed-payload outcome.
C29_LabelCheckBeforeFieldCheckWithJobIDs ==
    \A d \in Deliveries :
        (UnlabelledAndUnidentified(d) /\ JobIDsPresent(d)) =>
            /\ ~FieldCheckLogged(d)
            /\ pc[d] # "panicked"
            /\ Ended(d) =>
                 Responded(d, 200, "no action taken for labels: " \o Str(SprintLabels(JobLabels(d))))

\* a "queued" event labelled only other-label, with no installation, no
\* organization and no repository, was answered with the no-op for its labels
C29_Witness ==
    \E d \in Deliveries :
        /\ UnlabelledAndUnidentified(d) /\ JobIDsPresent(d)
        /\ JobLabels(d) = << T("other-label") >>
        /\ IsNil(Body(d).Installation) /\ IsNil(Body(d).Org) /\ IsNil(Body(d).Repo)
        /\ Responded(d, 200, "no action taken for labels: " \o Str(SprintLabels(JobLabels(d))))

(***************************************************************************)
(* Outcomes, their errors, and the error entry of handleWebhook            *)
(***************************************************************************)

\* the "error processing request" entries handleWebhook wrote for d
HandlerErrorEntries(d) ==
    { i \in 1..Len(logs) :
        /\ logs[i].delivery = d
        /\ logs[i].level = "ERROR"
        /\ logs[i].msg = "error processing request" }

\* every outcome processRequest returned has a code of 400 or above exactly
\* when its Error is not nil
ErrorIffCodeAtLeast400 ==
    \A d \in Deliveries :
        ~IsNil(outcome[d]) =>
            (Deref(outcome[d]).Code >= StatusBadRequest <=> ~IsNil(Deref(outcome[d]).Error))

\* handleWebhook has written its error entry, once, for the requests answered
\* with a status outside 200..299, and for no other request
ErrorEntryIffNon2xx ==
    \A d \in Deliveries :
        /\ pc[d] = "responded" =>
              /\ Cardinality(HandlerErrorEntries(d)) <= 1
              /\ HandlerErrorEntries(d) # {} <=> ~RespondedWithCode(d, 200..299)
              /\ \A i \in HandlerErrorEntries(d) :
                    logs[i].fields[2] = << "code", FormatInt(Deref(resp[d]).StatusCode) >>
        /\ pc[d] # "responded" => HandlerErrorEntries(d) = {}

\* C30: every outcome returned by processRequest has a status code of 400 or
\* above exactly when its Error field is non-nil, so handleWebhook writes an
\* error-level entry for exactly the requests answered with a non-2xx status.
C30_ErrorEntryExactlyForNon2xx == ErrorIffCodeAtLeast400 /\ ErrorEntryIffNon2xx

\* a request was answered 400 and has its error entry
C30_Witness ==
    \E d \in Deliveries :
        /\ RespondedWithCode(d, {StatusBadRequest})
        /\ ~IsNil(Deref(outcome[d]).Error)
        /\ HandlerErrorEntries(d) # {}

\* a request was answered 200 and has no error entry; another outcome is a 500
C30_WitnessNoEntry ==
    \E d \in Deliveries :
        /\ RespondedWithCode(d, {StatusOK})
        /\ IsNil(Deref(outcome[d]).Error)
        /\ HandlerErrorEntries(d) = {}
        /\ BuildAccepted(d)

\* the exchange failed and the request was answered 500
C30_WitnessExchangeFailed ==
    \E d \in Deliveries :
        /\ RespondedWithCode(d, {StatusInternalServerError})
        /\ ExchangeCalls(d) # {}
        /\ BuildCalls(d) = {}
        /\ HandlerErrorEntries(d) # {}

====
